---- MODULE Spec2Model ----
(***************************************************************************)
(* Model of the trustify ingestion engine: get-or-create ingestion of      *)
(* advisories, package status assertions, organizations, products,         *)
(* product versions and SBOMs on top of a relational store.                *)
(*                                                                         *)
(* The store is the record `db` (one field per table, each a set of rows,  *)
(* plus the id sequences).  Every operation of the source is an operator   *)
(* op(d, args) that yields the SET of outcomes [db, res] the operation can *)
(* produce when it runs on the table view d; an action applies one         *)
(* outcome.  Option<T> is a set with at most one element.                  *)
(***************************************************************************)
EXTENDS Integers, FiniteSets, Sequences, TLC

VARIABLES
    db,        \* the committed database: tables and id sequences
    ret,       \* what the last completed call returned to its caller
    returned,  \* history: every (call key, row id) pair returned with Ok so far
    task,      \* concurrent get-or-create calls: position and local variables
    txn,       \* the document loader: position, document, uncommitted rows
    run,       \* the importer run: position, report accumulator, output
    once       \* the static WELL_KNOWN_PREFIXES and the threads that read it

vars == <<db, ret, returned, task, txn, run, once>>

----------------------------------------------------------------------------
(* Bounds *)

MaxRows == 7        \* calls that may insert are made while the store holds fewer rows
NumTasks == 2       \* concurrent get-or-create calls
MaxLoads == 2       \* documents loaded one after the other
MaxOsvRows == 4     \* an OSV document is loaded while the store holds fewer rows
MaxEdges == 4       \* relationships are ingested while the store holds fewer edges
MaxAssertions == 2  \* statuses are asserted while the store holds fewer of them
MaxExpansions == 8  \* expansions after which a closure that re-expands gives up
MaxDocs == 3        \* documents a source lists (besides the listing of ten)
MaxRetries == 1     \* fetch_retries an importer is configured with

(* Input domains, taken from the values the repository's tests use *)
Identifiers == {"RHSA-GHSA-1"}
Locations   == {"http://db.com/rhsa-ghsa-2"}
Sha256s     == {"2", "89"}
PackageNames == {"quarkus-core", "quarkus-addons"}
Versions    == {"1.2.0"}
RangeStarts == {"1.0.2"}
RangeEnds   == {"1.2.0"}

Purls == [pkg : PackageNames, ver : Versions]

OrgNames     == {"Red Hat", "Apache"}
Websites     == {"https://w1.example", "https://w2.example"}
Cpes         == {[vendor |-> "redhat", product |-> "enterprise_linux"]}
ProductNames == {"RHEL"}
ProductVersions == {"9.4"}
SbomLocations == {"http://sbom.example/a"}
Sha256Digests == {<<18, 52>>, <<171, 205>>}     \* digests.sha256, as bytes
DocumentIds  == {"doc-1", "doc-2"}
CveIds       == {"CVE-123", "CVE-456"}
NodeIds      == {"SPDXRef-DOCUMENT", "root"}

----------------------------------------------------------------------------
(* Option and result values *)

None == {}
Some(x) == {x}

Ok(key, id, created) == [status |-> "ok", key |-> key, id |-> id, created |-> created]
Err(key) == [status |-> "err", key |-> key, id |-> 0, created |-> FALSE]
NoCall == [status |-> "none", key |-> <<"none">>, id |-> 0, created |-> FALSE,
           args |-> <<>>]

Out(d, res) == [db |-> d, res |-> res]

----------------------------------------------------------------------------
(* The store *)

Tables == {"advisory", "cve", "advisory_cve",
           "package_version", "package_version_range",
           "fixed_package_version", "not_affected_package_version",
           "affected_package_version_range",
           "organization", "product", "product_version",
           "sbom", "sbom_node",
           "cvss3", "package_status",
           "qualified_package", "sbom_package", "sbom_package_purl_ref",
           "package_relates_to_package",
           "cpe", "sbom_package_cpe_ref"}

EmptyDb == [t \in Tables |-> {}] @@ [seq |-> [t \in Tables |-> 1]]

Size(d) == LET RECURSIVE Sum(_)
               Sum(ts) == IF ts = {} THEN 0
                          ELSE LET t == CHOOSE x \in ts : TRUE
                               IN Cardinality(d[t]) + Sum(ts \ {t})
           IN Sum(Tables)

\* the next value of a table's id sequence
NextId(d, t) == d.seq[t]

\* a storage layer without the uniqueness constraint
NoUniqueViolation(keys, key) == FALSE

\* a uniqueness constraint of the storage layer: the natural key of the new
\* row is among the natural keys of the rows of the table
UniqueViolation(keys, key) == key \in keys

\* INSERT of `row` into table t; the sequence advances with the row
InsertRow(d, t, row) ==
    [d EXCEPT ![t] = @ \cup {row}, !.seq[t] = @ + 1]

----------------------------------------------------------------------------
(* api/src/system/advisory/mod.rs: InnerSystem *)

AdvisoryKey(r) == <<r.identifier, r.location, r.sha256>>

\* get_advisory with the sha256 filter applied to the location column
get_advisory_sha256_on_location(d, identifier, location, sha256) ==
    {r \in d.advisory : /\ r.identifier = identifier
                        /\ r.location = location
                        /\ r.location = sha256}

\* get_advisory without the sha256 filter
get_advisory_no_sha256(d, identifier, location, sha256) ==
    {r \in d.advisory : /\ r.identifier = identifier
                        /\ r.location = location}

\* SELECT ... WHERE identifier = ? AND location = ? AND sha256 = ?; the
\* query runs on the connection self.db, whatever transaction is passed
get_advisory(d, identifier, location, sha256) ==
    {r \in d.advisory : /\ r.identifier = identifier
                        /\ r.location = location
                        /\ r.sha256 = sha256}

\* the INSERT of ingest_advisory; the advisory table carries the
\* uniqueness constraint of the storage layer on the natural key
insert_advisory(d, identifier, location, sha256) ==
    LET key == <<"ingest_advisory", identifier, location, sha256>>
        row == [id |-> NextId(d, "advisory"), identifier |-> identifier,
                location |-> location, sha256 |-> sha256]
    IN IF UniqueViolation({AdvisoryKey(r) : r \in d.advisory}, AdvisoryKey(row))
       THEN {Out(d, Err(key))}
       ELSE {Out(InsertRow(d, "advisory", row), Ok(key, row.id, TRUE))}

ingest_advisory(d, identifier, location, sha256) ==
    LET key   == <<"ingest_advisory", identifier, location, sha256>>
        found == get_advisory(d, identifier, location, sha256)
    IN IF found # None
       THEN {Out(d, Ok(key, r.id, FALSE)) : r \in found}
       ELSE insert_advisory(d, identifier, location, sha256)

----------------------------------------------------------------------------
(* Packages: the get-or-create of package versions and version ranges the  *)
(* advisory context calls (Identity Store, keyed by the package URL)       *)

get_package_version(d, purl) ==
    {r \in d.package_version : r.pkg = purl.pkg /\ r.version = purl.ver}

ingest_package_version(d, purl) ==
    LET found == get_package_version(d, purl)
    IN IF found # None
       THEN {Out(d, r) : r \in found}
       ELSE LET row == [id |-> NextId(d, "package_version"),
                        pkg |-> purl.pkg, version |-> purl.ver]
            IN {Out(InsertRow(d, "package_version", row), row)}

get_package_version_range(d, pkg, start, end) ==
    {r \in d.package_version_range :
        r.pkg = pkg /\ r.start = start /\ r.end = end}

ingest_package_version_range(d, pkg, start, end) ==
    LET found == get_package_version_range(d, pkg, start, end)
    IN IF found # None
       THEN {Out(d, r) : r \in found}
       ELSE LET row == [id |-> NextId(d, "package_version_range"),
                        pkg |-> pkg, start |-> start, end |-> end]
            IN {Out(InsertRow(d, "package_version_range", row), row)}

----------------------------------------------------------------------------
(* api/src/system/advisory/mod.rs: AdvisoryContext (self.advisory.id = adv) *)

\* get_fixed_package_version without the advisory_id filter
get_fixed_package_version_any_advisory(d, adv, purl) ==
    UNION {{r \in d.fixed_package_version : r.package_version_id = pv.id}
           : pv \in get_package_version(d, purl)}

get_fixed_package_version(d, adv, purl) ==
    UNION {{r \in d.fixed_package_version :
                r.advisory_id = adv /\ r.package_version_id = pv.id}
           : pv \in get_package_version(d, purl)}

get_not_affected_package_version(d, adv, purl) ==
    UNION {{r \in d.not_affected_package_version :
                r.advisory_id = adv /\ r.package_version_id = pv.id}
           : pv \in get_package_version(d, purl)}

get_affected_package_range(d, adv, pkg, start, end) ==
    UNION {{r \in d.affected_package_version_range :
                r.advisory_id = adv /\ r.package_version_range_id = pvr.id}
           : pvr \in get_package_version_range(d, pkg, start, end)}

ingest_not_affected_package_version(d, adv, purl) ==
    LET key   == <<"ingest_not_affected_package_version", adv, purl.pkg, purl.ver>>
        found == get_not_affected_package_version(d, adv, purl)
    IN IF found # None
       THEN {Out(d, Ok(key, r.id, FALSE)) : r \in found}
       ELSE {LET row == [id |-> NextId(o.db, "not_affected_package_version"),
                         advisory_id |-> adv, package_version_id |-> o.res.id]
             IN Out(InsertRow(o.db, "not_affected_package_version", row),
                    Ok(key, row.id, TRUE))
             : o \in ingest_package_version(d, purl)}

ingest_fixed_package_version(d, adv, purl) ==
    LET key   == <<"ingest_fixed_package_version", adv, purl.pkg, purl.ver>>
        found == get_fixed_package_version(d, adv, purl)
    IN IF found # None
       THEN {Out(d, Ok(key, r.id, FALSE)) : r \in found}
       ELSE {LET row == [id |-> NextId(o.db, "fixed_package_version"),
                         advisory_id |-> adv, package_version_id |-> o.res.id]
             IN Out(InsertRow(o.db, "fixed_package_version", row),
                    Ok(key, row.id, TRUE))
             : o \in ingest_package_version(d, purl)}

ingest_affected_package_range(d, adv, pkg, start, end) ==
    LET key   == <<"ingest_affected_package_range", adv, pkg, start, end>>
        found == get_affected_package_range(d, adv, pkg, start, end)
    IN IF found # None
       THEN {Out(d, Ok(key, r.id, FALSE)) : r \in found}
       ELSE {LET row == [id |-> NextId(o.db, "affected_package_version_range"),
                         advisory_id |-> adv,
                         package_version_range_id |-> o.res.id]
             IN Out(InsertRow(o.db, "affected_package_version_range", row),
                    Ok(key, row.id, TRUE))
             : o \in ingest_package_version_range(d, pkg, start, end)}

\* InnerSystem::ingest_cve that inserts a CVE row on every call
system_ingest_cve_always_insert(d, identifier) ==
    LET row == [id |-> NextId(d, "cve"), identifier |-> identifier]
    IN {Out(InsertRow(d, "cve", row), row)}

\* InnerSystem::ingest_cve: get-or-create of the CVE row by its identifier
system_ingest_cve(d, identifier) ==
    LET found == {r \in d.cve : r.identifier = identifier}
    IN IF found # None
       THEN {Out(d, r) : r \in found}
       ELSE LET row == [id |-> NextId(d, "cve"), identifier |-> identifier]
            IN {Out(InsertRow(d, "cve", row), row)}

\* get_cve without the advisory_id filter
get_cve_any_advisory(d, adv, identifier) ==
    {c \in d.cve :
        /\ c.identifier = identifier
        /\ \E l \in d.advisory_cve : l.cve_id = c.id}

\* AdvisoryContext::get_cve: cve JOIN advisory_cve on this advisory
get_cve(d, adv, identifier) ==
    {c \in d.cve :
        /\ c.identifier = identifier
        /\ \E l \in d.advisory_cve : l.advisory_id = adv /\ l.cve_id = c.id}

\* AdvisoryContext::ingest_cve; a link row is (advisory_id, cve_id), and the
\* store numbers the rows (row) so that two inserts of one pair are two rows
ingest_cve(d, adv, identifier) ==
    LET key   == <<"ingest_cve", adv, identifier>>
        found == get_cve(d, adv, identifier)
    IN IF found # None
       THEN {Out(d, Ok(key, c.id, FALSE)) : c \in found}
       ELSE {LET link == [advisory_id |-> adv, cve_id |-> o.res.id,
                          row |-> NextId(o.db, "advisory_cve")]
             IN Out(InsertRow(o.db, "advisory_cve", link),
                    Ok(key, o.res.id, TRUE))
             : o \in system_ingest_cve(d, identifier)}

----------------------------------------------------------------------------
(* modules/ingestor/src/graph/organization.rs *)

Option(S) == {None} \cup {Some(x) : x \in S}

\* OrganizationInformation { cpe_key, website }
OrganizationInformation ==
    [cpe_key : Option({c.vendor : c \in Cpes}), website : Option(Websites)]

has_data(information) ==
    information.cpe_key # None \/ information.website # None

OrganizationKey(r) == r.name

get_organization_by_name(d, name) ==
    {r \in d.organization : r.name = name}

\* entity.update(): UPDATE organization SET website, cpe_key WHERE id = found.id
update_organization(d, found, information) ==
    LET key   == <<"ingest_organization", found.name>>
        model == [found EXCEPT !.website = information.website,
                               !.cpe_key = information.cpe_key]
    IN {Out([d EXCEPT !.organization =
                 {IF r.id = found.id
                  THEN [r EXCEPT !.website = information.website,
                                 !.cpe_key = information.cpe_key]
                  ELSE r : r \in @}],
            Ok(key, model.id, FALSE))}

\* entity.insert(); the organization name is unique in the storage layer
insert_organization(d, name, information) ==
    LET key == <<"ingest_organization", name>>
        row == [id |-> NextId(d, "organization"), name |-> name,
                cpe_key |-> information.cpe_key,
                website |-> information.website]
    IN IF UniqueViolation({OrganizationKey(r) : r \in d.organization},
                          OrganizationKey(row))
       THEN {Out(d, Err(key))}
       ELSE {Out(InsertRow(d, "organization", row), Ok(key, row.id, TRUE))}

ingest_organization(d, name, information) ==
    LET key   == <<"ingest_organization", name>>
        found == get_organization_by_name(d, name)
    IN IF found # None
       THEN IF has_data(information)
            THEN UNION {update_organization(d, r, information) : r \in found}
            ELSE {Out(d, Ok(key, r.id, FALSE)) : r \in found}
       ELSE insert_organization(d, name, information)

----------------------------------------------------------------------------
(* modules/ingestor/src/graph/product/mod.rs *)

\* ProductInformation { vendor, cpe }
ProductInformation == [vendor : Option(OrgNames), cpe : Option(Cpes)]

\* impl From<()> for ProductInformation
ProductInformationDefault == [vendor |-> None, cpe |-> None]

ProductKey(r) == <<r.vendor_id, r.name>>

get_product_by_organization(d, org, name) ==
    UNION {{r \in d.product : r.vendor_id = Some(o.id) /\ r.name = name}
           : o \in get_organization_by_name(d, org)}

\* entity.insert() of ingest_product; (vendor, name) is the natural key the
\* storage layer keeps unique
insert_product(d, name, vendor_id, cpe_key, key) ==
    LET row == [id |-> NextId(d, "product"), name |-> name,
                vendor_id |-> vendor_id, cpe_key |-> cpe_key]
    IN IF UniqueViolation({ProductKey(r) : r \in d.product}, ProductKey(row))
       THEN {Out(d, Err(key))}
       ELSE {Out(InsertRow(d, "product", row), Ok(key, row.id, TRUE))}

ingest_product(d, name, information) ==
    LET key     == <<"ingest_product", name, information.vendor>>
        cpe_key == {c.product : c \in information.cpe}
    IN IF information.vendor # None
       THEN LET vendor == CHOOSE v \in information.vendor : TRUE
                found  == get_product_by_organization(d, vendor, name)
            IN IF found # None
               THEN {Out(d, Ok(key, r.id, FALSE)) : r \in found}
               ELSE LET org == [cpe_key |-> {c.vendor : c \in information.cpe},
                                website |-> None]
                    IN UNION {IF o.res.status = "err"
                              THEN {Out(o.db, Err(key))}
                              ELSE insert_product(o.db, name, Some(o.res.id),
                                                  cpe_key, key)
                              : o \in ingest_organization(d, vendor, org)}
       ELSE insert_product(d, name, None, cpe_key, key)

\* ProductContext::get_version (self.product.id = product_id)
get_version(d, product_id, version) ==
    {r \in d.product_version :
        r.product_id = product_id /\ r.version = version}

\* ProductVersionContext::link_to_sbom: the product version row gets the SBOM
link_to_sbom(d, product_version, sbom_id, key, created) ==
    {Out([d EXCEPT !.product_version =
              {IF r.id = product_version.id
               THEN [r EXCEPT !.sbom_id = Some(sbom_id)] ELSE r : r \in @}],
         Ok(key, product_version.id, created))}

\* ProductContext::ingest_product_version; sbom_id is an Option
ingest_product_version(d, product_id, version, sbom_id) ==
    LET key   == <<"ingest_product_version", product_id, version>>
        found == get_version(d, product_id, version)
    IN IF found # None
       THEN UNION {IF sbom_id # None /\ r.sbom_id = None
                   THEN link_to_sbom(d, r, CHOOSE id \in sbom_id : TRUE,
                                     key, FALSE)
                   ELSE {Out(d, Ok(key, r.id, FALSE))}
                   : r \in found}
       ELSE LET row == [id |-> NextId(d, "product_version"),
                        product_id |-> product_id, sbom_id |-> None,
                        version |-> version]
                ins == InsertRow(d, "product_version", row)
            IN IF sbom_id # None
               THEN link_to_sbom(ins, row, CHOOSE id \in sbom_id : TRUE,
                                 key, TRUE)
               ELSE {Out(ins, Ok(key, row.id, TRUE))}

----------------------------------------------------------------------------
(* modules/ingestor/src/graph/sbom/mod.rs *)

HexDigits == <<"0", "1", "2", "3", "4", "5", "6", "7",
               "8", "9", "a", "b", "c", "d", "e", "f">>

\* digests.sha256.encode_hex::<String>(): two lower-case hex digits a byte
RECURSIVE encode_hex(_)
encode_hex(bytes) ==
    IF bytes = <<>> THEN <<>>
    ELSE <<HexDigits[(Head(bytes) \div 16) + 1],
           HexDigits[(Head(bytes) % 16) + 1]>> \o encode_hex(Tail(bytes))

\* SbomInformation { node_id, name, published, authors }
SbomInformation ==
    [node_id : NodeIds, name : {"sbom"}, published : {None},
     authors : {<<"Red Hat">>}]

\* get_sbom_by_digest without the sha256 filter
get_sbom_by_location_only(d, location, sha256) ==
    {r \in d.sbom : r.location = location}

get_sbom_by_digest(d, location, sha256) ==
    {r \in d.sbom : r.location = location /\ r.sha256 = sha256}

\* Uuid::now_v7(): an id no earlier call has produced
now_v7(d) == NextId(d, "sbom")

ingest_sbom(d, location, digests, document_id, info) ==
    LET sha256 == encode_hex(digests)
        key    == <<"ingest_sbom", location, digests>>
        found  == get_sbom_by_digest(d, location, sha256)
    IN IF found # None
       THEN {Out(d, Ok(key, r.sbom_id, FALSE)) : r \in found}
       ELSE LET sbom_id == now_v7(d)
                node == [sbom_id |-> sbom_id, node_id |-> info.node_id,
                         name |-> info.name]
                row  == [sbom_id |-> sbom_id, node_id |-> info.node_id,
                         document_id |-> document_id, location |-> location,
                         sha256 |-> sha256, published |-> info.published,
                         authors |-> info.authors]
                d1   == [d EXCEPT !.sbom_node = @ \cup {node}]
            IN {Out(InsertRow(d1, "sbom", row), Ok(key, sbom_id, TRUE))}

\* SbomContext::link_to_product (self.sbom.sbom_id = sbom_id)
link_to_product(d, sbom_id, product_version) ==
    LET key == <<"link_to_product", sbom_id, product_version.id>>
    IN {Out([d EXCEPT !.product_version =
                 {IF r.id = product_version.id
                  THEN [r EXCEPT !.sbom_id = Some(sbom_id)] ELSE r : r \in @}],
            Ok(key, product_version.id, FALSE))}

----------------------------------------------------------------------------
(* Calls made one after the other on the connection (Transactional::None), *)
(* as the tests of api/src/system/advisory/mod.rs make them                *)

\* the caller receives the outcome o of a call made with the further
\* arguments args; a call that inserts is made only while the store is below
\* its bound
Return(o, args) ==
    /\ Size(o.db) = Size(db) \/ Size(db) < MaxRows
    /\ db' = o.db
    /\ ret' = [status |-> o.res.status, key |-> o.res.key, id |-> o.res.id,
               created |-> o.res.created, args |-> args]
    /\ returned' = IF o.res.status = "ok"
                   THEN returned \cup {[key |-> o.res.key, id |-> o.res.id]}
                   ELSE returned

CallIngestAdvisory ==
    \E i \in Identifiers, l \in Locations, s \in Sha256s :
        /\ \E o \in ingest_advisory(db, i, l, s) : Return(o, <<>>)
        /\ UNCHANGED <<task, txn, run, once>>

CallIngestFixed ==
    \E a \in db.advisory, purl \in Purls :
        /\ \E o \in ingest_fixed_package_version(db, a.id, purl) : Return(o, <<>>)
        /\ UNCHANGED <<task, txn, run, once>>

CallIngestNotAffected ==
    \E a \in db.advisory, purl \in Purls :
        /\ \E o \in ingest_not_affected_package_version(db, a.id, purl) : Return(o, <<>>)
        /\ UNCHANGED <<task, txn, run, once>>

CallIngestAffectedRange ==
    \E a \in db.advisory, pkg \in PackageNames,
       start \in RangeStarts, end \in RangeEnds :
        /\ \E o \in ingest_affected_package_range(db, a.id, pkg, start, end) :
               Return(o, <<>>)
        /\ UNCHANGED <<task, txn, run, once>>

Tasks == 1..NumTasks

NoRes == [status |-> "none", key |-> <<"none">>, id |-> 0, created |-> FALSE]
IdleTask == [pc |-> "idle", args |-> <<>>, res |-> NoRes]

\* the loader holds no transaction and has loaded nothing
NoTxn == [pc |-> "idle", loads |-> 0, location |-> "", advisory_id |-> "",
          sha256 |-> "", advisory |-> 0, vulnerabilities |-> <<>>,
          work |-> <<>>,
          writes |-> [t \in Tables |-> {}], pre |-> EmptyDb]

\* model::SbomImporter as run_once_sbom reads it: whether source parses as a
\* URL, whether the fetcher, the validation options and the filter patterns
\* can be built, fetch_retries, and the documents the source lists
NoImporter ==
    [source_ok |-> TRUE, fetcher_ok |-> TRUE, options_ok |-> TRUE,
     patterns_ok |-> TRUE, fetch_retries |-> None, documents |-> <<>>]

\* no run of the importer was started
NoRun == [pc |-> "idle", importer |-> NoImporter, attempts |-> 0,
          next |-> 1, current |-> 0, stage |-> 0, failed |-> "",
          report |-> <<>>, added |-> <<>>, trace |-> <<>>, pending |-> None,
          result |-> "none", output |-> None]

\* OnceLock::new() and threads that have not called get_well_known_prefixes:
\* the cell is empty, no initializer has run, no thread holds a matcher
NumThreads == 3
Threads == 1..NumThreads
NoOnce == [state |-> "incomplete", value |-> <<>>, inits |-> 0,
           thread |-> [p \in Threads |->
                          [pc |-> "idle", matcher |-> <<>>, seen |-> <<>>,
                           calls |-> 0]]]

Init ==
    /\ db = EmptyDb
    /\ ret = NoCall
    /\ returned = {}
    /\ task = [p \in Tasks |-> IdleTask]
    /\ txn = NoTxn
    /\ run = NoRun
    /\ once = NoOnce

NextAdvisory ==
    \/ CallIngestAdvisory
    \/ CallIngestFixed
    \/ CallIngestNotAffected
    \/ CallIngestAffectedRange

SpecAdvisory == Init /\ [][NextAdvisory]_vars

----------------------------------------------------------------------------
(* Properties of the advisory operations *)

\* the Ok results of one operation
OpReturned(op) == {x \in returned : x.key[1] = op}

\* the distinct argument tuples one operation was called with successfully
OpKeys(op) == {x.key : x \in OpReturned(op)}

\* C1: ingesting the same (identifier, location, sha256) again returns the
\* advisory with the same id as before, every ingest_advisory call made in
\* sequence succeeds, and the advisory table holds exactly one row per
\* distinct key ingested so far.
C1_IngestAdvisoryIdempotent ==
    /\ ret.key[1] = "ingest_advisory" => ret.status = "ok"
    /\ \A a, b \in OpReturned("ingest_advisory") : a.key = b.key => a.id = b.id
    /\ Cardinality(db.advisory) = Cardinality(OpKeys("ingest_advisory"))

\* a second ingest_advisory call for a key has returned the existing row
C1_Witness ==
    /\ ret.key[1] = "ingest_advisory"
    /\ ret.status = "ok"
    /\ ~ret.created
    /\ \E r \in db.advisory :
           r.id = ret.id /\ <<"ingest_advisory">> \o AdvisoryKey(r) = ret.key

\* C2: two ingest_advisory calls with the same identifier and location and
\* different sha256 return different ids, and the id a call returns always
\* names a row that carries exactly the key of that call (the row of the
\* other digest is neither returned nor modified).
C2_DigestMismatchDistinct ==
    /\ \A a, b \in OpReturned("ingest_advisory") :
           (a.key[2] = b.key[2] /\ a.key[3] = b.key[3] /\ a.key[4] # b.key[4])
               => a.id # b.id
    /\ \A a \in OpReturned("ingest_advisory") :
           \E r \in db.advisory :
               r.id = a.id /\ <<"ingest_advisory">> \o AdvisoryKey(r) = a.key

\* both digests of one (identifier, location) were ingested, and the call
\* for the second digest has just created its own row
C2_Witness ==
    /\ ret.key[1] = "ingest_advisory" /\ ret.status = "ok" /\ ret.created
    /\ \E a \in OpReturned("ingest_advisory") :
           /\ a.key[2] = ret.key[2] /\ a.key[3] = ret.key[3]
           /\ a.key[4] # ret.key[4]
           /\ a.id # ret.id

StatusOps == {"ingest_fixed_package_version",
              "ingest_not_affected_package_version",
              "ingest_affected_package_range"}

StatusTable(op) ==
    CASE op = "ingest_fixed_package_version" -> "fixed_package_version"
      [] op = "ingest_not_affected_package_version" -> "not_affected_package_version"
      [] op = "ingest_affected_package_range" -> "affected_package_version_range"

\* C10: for each status kind, every call made in sequence succeeds, two calls
\* return the same row id exactly when they name the same (advisory, package
\* version or package+start+end), and the status table holds one row per
\* distinct argument tuple (a repeated call adds no row).
C10_StatusIdempotent ==
    /\ ret.key[1] \in StatusOps => ret.status = "ok"
    /\ \A op \in StatusOps :
           /\ \A a, b \in OpReturned(op) : (a.key = b.key) <=> (a.id = b.id)
           /\ Cardinality(db[StatusTable(op)]) = Cardinality(OpKeys(op))

\* every status kind has been ingested, the last call repeated an earlier
\* call and got the existing row, and the same status was also ingested for
\* a different package of the same advisory
C10_Witness ==
    /\ \A op \in StatusOps : OpReturned(op) # {}
    /\ ret.key[1] \in StatusOps /\ ret.status = "ok" /\ ~ret.created
    /\ \E b \in OpReturned(ret.key[1]) :
           b.key[2] = ret.key[2] /\ b.key[3] # ret.key[3] /\ b.id # ret.id

----------------------------------------------------------------------------
(* Linking CVEs to advisories (test::ingest_advisory_cve)                  *)

CallIngestCve ==
    \E a \in db.advisory, identifier \in CveIds :
        /\ \E o \in ingest_cve(db, a.id, identifier) : Return(o, <<>>)
        /\ UNCHANGED <<task, txn, run, once>>

NextCve ==
    \/ CallIngestAdvisory
    \/ CallIngestCve

SpecCve == Init /\ [][NextCve]_vars

\* the advisory_cve rows that link advisory adv to a CVE named identifier
CveLinks(adv, identifier) ==
    {l \in db.advisory_cve :
        /\ l.advisory_id = adv
        /\ \E c \in db.cve : c.id = l.cve_id /\ c.identifier = identifier}

\* C11: every ingest_cve call made in sequence succeeds; two calls on one
\* advisory return the same CVE id exactly when they name the same CVE
\* identifier; and every (advisory, identifier) pair linked so far has
\* exactly one advisory_cve row, whose CVE is the one the calls returned.
C11_IngestCveIdempotent ==
    /\ ret.key[1] = "ingest_cve" => ret.status = "ok"
    /\ \A a, b \in OpReturned("ingest_cve") :
           a.key[2] = b.key[2] => ((a.key[3] = b.key[3]) <=> (a.id = b.id))
    /\ \A a \in OpReturned("ingest_cve") :
           /\ Cardinality(CveLinks(a.key[2], a.key[3])) = 1
           /\ \A l \in CveLinks(a.key[2], a.key[3]) : l.cve_id = a.id

\* the last call linked again a pair that was already linked and got the
\* existing CVE, a different identifier is linked to the same advisory, and
\* the same identifier is linked to another advisory
C11_Witness ==
    /\ ret.key[1] = "ingest_cve" /\ ret.status = "ok" /\ ~ret.created
    /\ \E b \in OpReturned("ingest_cve") :
           b.key[2] = ret.key[2] /\ b.key[3] # ret.key[3] /\ b.id # ret.id
    /\ \E b \in OpReturned("ingest_cve") :
           b.key[2] # ret.key[2] /\ b.key[3] = ret.key[3]

----------------------------------------------------------------------------
(* Calls on organizations, products, product versions and SBOMs, made one  *)
(* after the other                                                         *)

CallIngestOrganization ==
    \E name \in OrgNames, information \in OrganizationInformation :
        /\ \E o \in ingest_organization(db, name, information) :
               Return(o, <<>>)
        /\ UNCHANGED <<task, txn, run, once>>

CallIngestProduct ==
    \E name \in ProductNames, information \in ProductInformation :
        /\ \E o \in ingest_product(db, name, information) :
               Return(o, <<>>)
        /\ UNCHANGED <<task, txn, run, once>>

\* ingest_product(name, (), tx)
CallIngestProductDefault ==
    \E name \in ProductNames :
        /\ \E o \in ingest_product(db, name, ProductInformationDefault) :
               Return(o, <<>>)
        /\ UNCHANGED <<task, txn, run, once>>

CallIngestProductVersion ==
    \E p \in db.product, version \in ProductVersions,
       sbom_id \in Option({s.sbom_id : s \in db.sbom}) :
        /\ \E o \in ingest_product_version(db, p.id, version, sbom_id) :
               Return(o, <<>>)
        /\ UNCHANGED <<task, txn, run, once>>

CallLinkToProduct ==
    \E s \in db.sbom, pv \in db.product_version :
        /\ \E o \in link_to_product(db, s.sbom_id, pv) : Return(o, <<>>)
        /\ UNCHANGED <<task, txn, run, once>>

CallIngestSbom ==
    \E location \in SbomLocations, digests \in Sha256Digests,
       document_id \in DocumentIds, info \in SbomInformation :
        /\ \E o \in ingest_sbom(db, location, digests, document_id, info) :
               Return(o, <<document_id, info.node_id>>)
        /\ UNCHANGED <<task, txn, run, once>>

NextOrganization ==
    \/ CallIngestOrganization
    \/ CallIngestProduct

SpecOrganization == Init /\ [][NextOrganization]_vars

NextSbom ==
    \/ CallIngestSbom
    \/ CallIngestProductDefault
    \/ CallIngestProductVersion
    \/ CallLinkToProduct

SpecSbom == Init /\ [][NextSbom]_vars

----------------------------------------------------------------------------
(* Properties of the organization, product and SBOM operations *)

\* C6: ingest_organization on an existing name keeps the row (same id and
\* name) and never overwrites or clears a website or cpe_key that is already
\* set: in every step, also one taken through ingest_product with a vendor,
\* a field of an organization row changes only from unset to set.
C6_OrganizationMergeOnly ==
    [][\A r \in db.organization :
          \E r2 \in db'.organization :
              /\ r2.id = r.id /\ r2.name = r.name
              /\ r.website # None => r2.website = r.website
              /\ r.cpe_key # None => r2.cpe_key = r.cpe_key]_vars

\* C7: ingest_product is idempotent on (name, vendor), vendor possibly
\* absent: every call succeeds, two calls with the same name and vendor
\* return the same product id, and there is one product row per distinct
\* (name, vendor) ingested.
C7_IngestProductIdempotent ==
    /\ ret.key[1] = "ingest_product" => ret.status = "ok"
    /\ \A a, b \in OpReturned("ingest_product") : a.key = b.key => a.id = b.id
    /\ Cardinality(db.product) = Cardinality(OpKeys("ingest_product"))

\* C8: once a product_version row has an sbom_id, no step changes it.
C8_SbomLinkSetOnce ==
    [][\A r \in db.product_version :
          r.sbom_id # None =>
              \E r2 \in db'.product_version :
                  r2.id = r.id /\ r2.sbom_id = r.sbom_id]_vars

\* C9: ingest_sbom identifies an SBOM by (location, sha256): every call
\* succeeds, two calls return the same sbom_id exactly when location and
\* digest agree, the returned id names the row with the call's location and
\* hex digest, and the sbom and sbom_node tables hold one row per distinct
\* (location, digest) ingested, whatever document_id and SbomInformation the
\* calls passed.
C9_IngestSbomIdentity ==
    /\ ret.key[1] = "ingest_sbom" => ret.status = "ok"
    /\ \A a, b \in OpReturned("ingest_sbom") : (a.key = b.key) <=> (a.id = b.id)
    /\ \A a \in OpReturned("ingest_sbom") :
           \E r \in db.sbom : /\ r.sbom_id = a.id
                              /\ r.location = a.key[2]
                              /\ r.sha256 = encode_hex(a.key[3])
    /\ Cardinality(db.sbom) = Cardinality(OpKeys("ingest_sbom"))
    /\ Cardinality(db.sbom_node) = Cardinality(OpKeys("ingest_sbom"))

\* an SBOM was ingested again with another document_id and node_id and the
\* call returned the existing row, while the same location with the other
\* digest has its own SBOM
C9_Witness ==
    /\ ret.key[1] = "ingest_sbom" /\ ret.status = "ok" /\ ~ret.created
    /\ \E r \in db.sbom : /\ r.sbom_id = ret.id
                          /\ r.document_id # ret.args[1]
                          /\ r.node_id # ret.args[2]
    /\ \E b \in OpReturned("ingest_sbom") :
           b.key[2] = ret.key[2] /\ b.key[3] # ret.key[3] /\ b.id # ret.id

----------------------------------------------------------------------------
(* Concurrent get-or-create calls.  Every await of ingest_advisory and     *)
(* ingest_organization is a step of its own: the lookup, then the insert   *)
(* or update.  Each step runs on the connection and commits by itself.     *)

Finish(p, res) ==
    task' = [task EXCEPT ![p] = [pc |-> "done", args |-> @.args, res |-> res]]

\* ingest_advisory up to the answer of get_advisory
AdvisoryLookup(p) ==
    \E i \in Identifiers, l \in Locations, s \in Sha256s :
        /\ task[p].pc = "idle"
        /\ LET found == get_advisory(db, i, l, s)
               key   == <<"ingest_advisory", i, l, s>>
           IN IF found # None
              THEN \E r \in found :
                       task' = [task EXCEPT ![p] =
                                   [pc |-> "done", args |-> <<i, l, s>>,
                                    res |-> Ok(key, r.id, FALSE)]]
              ELSE task' = [task EXCEPT ![p] =
                               [pc |-> "advisory_insert", args |-> <<i, l, s>>,
                                res |-> NoRes]]
        /\ UNCHANGED <<db, ret, returned, txn, run, once>>

\* ingest_advisory from model.insert() to the return
AdvisoryInsert(p) ==
    /\ task[p].pc = "advisory_insert"
    /\ \E o \in insert_advisory(db, task[p].args[1], task[p].args[2],
                                task[p].args[3]) :
           /\ db' = o.db
           /\ Finish(p, o.res)
    /\ UNCHANGED <<ret, returned, txn, run, once>>

\* ingest_organization up to the answer of get_organization_by_name
OrganizationLookup(p) ==
    \E name \in OrgNames, information \in OrganizationInformation :
        /\ task[p].pc = "idle"
        /\ LET found == get_organization_by_name(db, name)
               key   == <<"ingest_organization", name>>
           IN IF found # None
              THEN \E r \in found :
                       IF has_data(information)
                       THEN task' = [task EXCEPT ![p] =
                                        [pc |-> "organization_update",
                                         args |-> <<r, information>>,
                                         res |-> NoRes]]
                       ELSE task' = [task EXCEPT ![p] =
                                        [pc |-> "done",
                                         args |-> <<r, information>>,
                                         res |-> Ok(key, r.id, FALSE)]]
              ELSE task' = [task EXCEPT ![p] =
                               [pc |-> "organization_insert",
                                args |-> <<name, information>>,
                                res |-> NoRes]]
        /\ UNCHANGED <<db, ret, returned, txn, run, once>>

\* ingest_organization from entity.update() to the return
OrganizationUpdate(p) ==
    /\ task[p].pc = "organization_update"
    /\ \E o \in update_organization(db, task[p].args[1], task[p].args[2]) :
           /\ db' = o.db
           /\ Finish(p, o.res)
    /\ UNCHANGED <<ret, returned, txn, run, once>>

\* ingest_organization from entity.insert() to the return
OrganizationInsert(p) ==
    /\ task[p].pc = "organization_insert"
    /\ \E o \in insert_organization(db, task[p].args[1], task[p].args[2]) :
           /\ db' = o.db
           /\ Finish(p, o.res)
    /\ UNCHANGED <<ret, returned, txn, run, once>>

NextRace ==
    \E p \in Tasks :
        \/ AdvisoryLookup(p)
        \/ AdvisoryInsert(p)
        \/ OrganizationLookup(p)
        \/ OrganizationUpdate(p)
        \/ OrganizationInsert(p)

SpecRace == Init /\ [][NextRace]_vars

----------------------------------------------------------------------------
(* Properties of concurrent get-or-create calls *)

\* C3: in every state reached by interleaving the lookup and insert steps
\* of concurrent ingest_advisory calls, at most one advisory row exists for
\* a natural key (identifier, location, sha256).
C3_OneAdvisoryRowPerKey ==
    \A r1, r2 \in db.advisory :
        AdvisoryKey(r1) = AdvisoryKey(r2) => r1.id = r2.id

\* two calls for the same key both found nothing, and both have run their
\* insert: one created the row, the other hit the constraint
C3_Witness ==
    \E p, q \in Tasks :
        /\ p # q
        /\ task[p].pc = "done" /\ task[q].pc = "done"
        /\ task[p].res.key[1] = "ingest_advisory"
        /\ task[p].res.key = task[q].res.key
        /\ task[p].res.status = "ok" /\ task[p].res.created
        /\ task[q].res.status = "err"
        /\ Cardinality(get_advisory(db, task[p].args[1], task[p].args[2],
                                    task[p].args[3])) = 1

\* C4: a get-or-create call (ingest_advisory, ingest_organization) that
\* races with another call for the same natural key never returns an error,
\* and the two callers receive the same entity.
C4_LoserReturnsWinnerRow ==
    \A p, q \in Tasks :
        (task[p].pc = "done" /\ task[q].pc = "done"
            /\ task[p].res.key = task[q].res.key)
        => /\ task[p].res.status = "ok"
           /\ task[q].res.status = "ok"
           /\ task[p].res.id = task[q].res.id

----------------------------------------------------------------------------
(* modules/ingestor/src/service/advisory/csaf/loader.rs: CsafLoader::load  *)
(*                                                                         *)
(* A CSAF document is [id, sha256, vulnerabilities]; a vulnerability is    *)
(* [cve, fixed, known_not_affected, known_affected] with cve an Option and *)
(* the status lists sequences of resolved package URLs.                    *)

Purl(pkg) == [pkg |-> pkg, ver |-> "1.2.0"]

CsafDocuments ==
    {[id |-> "RHSA-GHSA-1", sha256 |-> "2",
      vulnerabilities |->
          <<[cve |-> Some("CVE-123"), fixed |-> <<Purl("quarkus-core")>>,
             known_not_affected |-> <<Purl("quarkus-addons")>>,
             known_affected |-> <<>>]>>],
     [id |-> "RHSA-GHSA-1", sha256 |-> "89",
      vulnerabilities |->
          <<[cve |-> None, fixed |-> <<Purl("quarkus-core")>>,
             known_not_affected |-> <<>>, known_affected |-> <<>>],
            [cve |-> Some("CVE-456"), fixed |-> <<Purl("quarkus-addons")>>,
             known_not_affected |-> <<>>,
             known_affected |-> <<Purl("quarkus-core")>>]>>]}

RECURSIVE StatusWork(_, _)
StatusWork(op, purls) ==
    IF purls = <<>> THEN <<>>
    ELSE <<[op |-> op, arg |-> Head(purls)]>> \o StatusWork(op, Tail(purls))

\* csaf_work without the filter on e.cve.is_some(): the product status of a
\* vulnerability without a cve is translated as well
RECURSIVE csaf_work_any_vulnerability(_)
csaf_work_any_vulnerability(vulnerabilities) ==
    IF vulnerabilities = <<>> THEN <<>>
    ELSE LET vuln == Head(vulnerabilities)
             rest == csaf_work_any_vulnerability(Tail(vulnerabilities))
         IN (IF vuln.cve = None THEN <<>>
             ELSE <<[op |-> "link_to_vulnerability",
                     arg |-> CHOOSE id \in vuln.cve : TRUE]>>)
            \o StatusWork("ingest_fixed_package_version", vuln.fixed)
            \o StatusWork("ingest_not_affected_package_version",
                          vuln.known_not_affected)
            \o rest

\* the store operations the loops of load issue for the vulnerabilities, in
\* order: a vulnerability without a cve is skipped, known_affected yields
\* nothing
RECURSIVE csaf_work(_)
csaf_work(vulnerabilities) ==
    IF vulnerabilities = <<>> THEN <<>>
    ELSE LET vuln == Head(vulnerabilities)
             rest == csaf_work(Tail(vulnerabilities))
         IN IF vuln.cve = None THEN rest
            ELSE <<[op |-> "link_to_vulnerability",
                    arg |-> CHOOSE id \in vuln.cve : TRUE]>>
                 \o StatusWork("ingest_fixed_package_version", vuln.fixed)
                 \o StatusWork("ingest_not_affected_package_version",
                               vuln.known_not_affected)
                 \o rest

\* what a statement inside the transaction sees: the committed rows and the
\* transaction's own uncommitted rows
View(d, writes) == [t \in Tables |-> d[t] \cup writes[t]] @@ [seq |-> d.seq]

\* the rows a statement run on the view v added
Written(v, d) == [t \in Tables |-> v[t] \ d[t]]

Rows(d) == [t \in Tables |-> d[t]]

InProgress == {"advisory", "vulnerabilities"}

\* load up to self.graph.transaction()
LoadBegin ==
    \E doc \in CsafDocuments, location \in Locations :
        /\ txn.pc \notin InProgress
        /\ txn.loads < MaxLoads
        /\ txn' = [pc |-> "advisory", loads |-> txn.loads + 1,
                   location |-> location, advisory_id |-> doc.id,
                   sha256 |-> doc.sha256, advisory |-> 0,
                   vulnerabilities |-> doc.vulnerabilities,
                   work |-> csaf_work(doc.vulnerabilities),
                   writes |-> [t \in Tables |-> {}], pre |-> db]
        /\ UNCHANGED <<db, ret, returned, task, run, once>>

\* self.graph.ingest_advisory(&advisory_id, location, sha256, &tx): lookup
\* and insert run on the connection self.db, not on tx
LoadIngestAdvisory ==
    /\ txn.pc = "advisory"
    /\ \E o \in ingest_advisory(db, txn.advisory_id, txn.location, txn.sha256) :
           /\ db' = o.db
           /\ txn' = IF o.res.status = "ok"
                     THEN [txn EXCEPT !.pc = "vulnerabilities",
                                      !.advisory = o.res.id]
                     ELSE [txn EXCEPT !.pc = "failed",
                                      !.writes = [t \in Tables |-> {}]]
    /\ UNCHANGED <<ret, returned, task, run, once>>

\* one statement of the vulnerability loops, run on tx
LoadStep ==
    /\ txn.pc = "vulnerabilities"
    /\ txn.work # <<>>
    /\ LET w == Head(txn.work)
           v == View(db, txn.writes)
           outcomes ==
               CASE w.op = "link_to_vulnerability" ->
                        ingest_cve(v, txn.advisory, w.arg)
                 [] w.op = "ingest_fixed_package_version" ->
                        ingest_fixed_package_version(v, txn.advisory, w.arg)
                 [] w.op = "ingest_not_affected_package_version" ->
                        ingest_not_affected_package_version(v, txn.advisory, w.arg)
       IN \E o \in outcomes :
              /\ db' = [db EXCEPT !.seq = o.db.seq]
              /\ txn' = [txn EXCEPT !.work = Tail(@),
                                    !.writes = Written(o.db, db)]
    /\ UNCHANGED <<ret, returned, task, run, once>>

\* tx.commit() after the loops
LoadCommit ==
    /\ txn.pc = "vulnerabilities"
    /\ txn.work = <<>>
    /\ db' = View(db, txn.writes)
    /\ txn' = [txn EXCEPT !.pc = "committed", !.writes = [t \in Tables |-> {}]]
    /\ UNCHANGED <<ret, returned, task, run, once>>

\* a statement or the commit fails with a storage error: `?` returns the
\* error and the dropped transaction rolls back
LoadFail ==
    /\ txn.pc \in InProgress
    /\ txn' = [txn EXCEPT !.pc = "failed", !.writes = [t \in Tables |-> {}]]
    /\ UNCHANGED <<db, ret, returned, task, run, once>>

NextLoad ==
    \/ LoadBegin
    \/ LoadIngestAdvisory
    \/ LoadStep
    \/ LoadCommit
    \/ LoadFail

SpecLoad == Init /\ [][NextLoad]_vars

\* C5: loading a document is all-or-nothing: when a load has failed before
\* its commit, the tables hold exactly the rows they held when the load
\* began (none of the document's rows, every row of earlier documents).
C5_LoadAllOrNothing ==
    txn.pc = "failed" => Rows(db) = Rows(txn.pre)

----------------------------------------------------------------------------
(* Version Range Engine: version specifications and the membership test    *)

\* a pure operation answers its caller with a value and leaves the store alone
Value(key, args, v) ==
    [status |-> "ok", key |-> key, id |-> 0, created |-> FALSE,
     args |-> args, value |-> v]

Answer(key, args, v) ==
    /\ ret' = Value(key, args, v)
    /\ UNCHANGED <<db, returned, task, txn, run, once>>

\* version strings "major.minor.patch", as the sequence of their numbers
SemVers == {<<1, 0, 2>>, <<1, 1, 9>>, <<1, 2, 0>>, <<1, 10, 0>>}

Schemes == {"semver"}

\* enum Version
Unbounded == [kind |-> "Unbounded", version |-> <<>>]
Inclusive(v) == [kind |-> "Inclusive", version |-> v]
Exclusive(v) == [kind |-> "Exclusive", version |-> v]

\* enum VersionSpec
Exact(v) == [kind |-> "Exact", version |-> v, lower |-> Unbounded, upper |-> Unbounded]
Range(lower, upper) == [kind |-> "Range", version |-> <<>>, lower |-> lower, upper |-> upper]

VersionBounds == {Unbounded} \cup {Inclusive(v) : v \in SemVers}
                             \cup {Exclusive(v) : v \in SemVers}

VersionSpecs == {Exact(v) : v \in SemVers}
                \cup {Range(l, u) : l \in VersionBounds, u \in VersionBounds}

\* the semver ordering: the numbers are compared left to right
RECURSIVE semver_compare(_, _)
semver_compare(a, b) ==
    IF a = <<>> /\ b = <<>> THEN "Equal"
    ELSE IF a = <<>> THEN "Less"
    ELSE IF b = <<>> THEN "Greater"
    ELSE IF Head(a) < Head(b) THEN "Less"
    ELSE IF Head(a) > Head(b) THEN "Greater"
    ELSE semver_compare(Tail(a), Tail(b))

\* scheme name -> ordering function
compare(scheme, a, b) ==
    CASE scheme = "semver" -> semver_compare(a, b)

lower_ok(scheme, bound, candidate) ==
    CASE bound.kind = "Unbounded" -> TRUE
      [] bound.kind = "Inclusive" ->
             compare(scheme, candidate, bound.version) \in {"Greater", "Equal"}
      [] bound.kind = "Exclusive" ->
             compare(scheme, candidate, bound.version) = "Greater"

\* an upper bound that treats Exclusive like Inclusive
upper_ok_inclusive(scheme, bound, candidate) ==
    CASE bound.kind = "Unbounded" -> TRUE
      [] bound.kind = "Inclusive" ->
             compare(scheme, candidate, bound.version) \in {"Less", "Equal"}
      [] bound.kind = "Exclusive" ->
             compare(scheme, candidate, bound.version) \in {"Less", "Equal"}

upper_ok(scheme, bound, candidate) ==
    CASE bound.kind = "Unbounded" -> TRUE
      [] bound.kind = "Inclusive" ->
             compare(scheme, candidate, bound.version) \in {"Less", "Equal"}
      [] bound.kind = "Exclusive" ->
             compare(scheme, candidate, bound.version) = "Less"

contains(scheme, spec, candidate) ==
    CASE spec.kind = "Exact" -> compare(scheme, candidate, spec.version) = "Equal"
      [] spec.kind = "Range" -> /\ lower_ok(scheme, spec.lower, candidate)
                                /\ upper_ok(scheme, spec.upper, candidate)

CallContains ==
    \E scheme \in Schemes, spec \in VersionSpecs, candidate \in SemVers :
        Answer(<<"contains">>, <<scheme, spec, candidate>>,
               contains(scheme, spec, candidate))

NextContains ==
    \/ CallContains

SpecContains == Init /\ [][NextContains]_vars

\* the versions v with a <= v, a < v, v <= a, v < a in the scheme's ordering
AtLeast(scheme, a) == {v \in SemVers : compare(scheme, v, a) # "Less"}
Above(scheme, a)   == {v \in SemVers : compare(scheme, v, a) = "Greater"}
AtMost(scheme, a)  == {v \in SemVers : compare(scheme, v, a) # "Greater"}
Below(scheme, a)   == {v \in SemVers : compare(scheme, v, a) = "Less"}

\* C12: contains(spec, candidate) is true exactly when the candidate meets
\* both bounds in the scheme's ordering: Exact(v) matches only v, Unbounded is
\* always met, a lower Inclusive(v)/Exclusive(v) needs candidate >= v / > v,
\* an upper Inclusive(v)/Exclusive(v) needs candidate <= v / < v; for semver
\* Range(Inclusive(1.0.2), Exclusive(1.2.0)) holds 1.0.2 and 1.1.9, not 1.2.0.
C12_ContainsBothBounds ==
    ret.key[1] = "contains" =>
        LET scheme == ret.args[1]
            spec   == ret.args[2]
            c      == ret.args[3]
            Low  == CASE spec.lower.kind = "Unbounded" -> SemVers
                      [] spec.lower.kind = "Inclusive" -> AtLeast(scheme, spec.lower.version)
                      [] spec.lower.kind = "Exclusive" -> Above(scheme, spec.lower.version)
            High == CASE spec.upper.kind = "Unbounded" -> SemVers
                      [] spec.upper.kind = "Inclusive" -> AtMost(scheme, spec.upper.version)
                      [] spec.upper.kind = "Exclusive" -> Below(scheme, spec.upper.version)
        IN /\ spec.kind = "Exact" => (ret.value <=> c = spec.version)
           /\ spec.kind = "Range" => (ret.value <=> c \in Low \cap High)
           /\ (scheme = "semver"
               /\ spec = Range(Inclusive(<<1, 0, 2>>), Exclusive(<<1, 2, 0>>)))
              => (ret.value <=> c \in {<<1, 0, 2>>, <<1, 1, 9>>})

\* the range of the example was asked about 1.1.9 and the answer was yes
C12_Witness ==
    /\ ret.key[1] = "contains"
    /\ ret.args = <<"semver", Range(Inclusive(<<1, 0, 2>>), Exclusive(<<1, 2, 0>>)),
                    <<1, 1, 9>>>>
    /\ ret.value

----------------------------------------------------------------------------
(* modules/ingestor/src/service/advisory/osv/loader.rs                     *)

\* osv::schema::Event
Introduced(v) == [event |-> "Introduced", version |-> v]
Fixed(v) == [event |-> "Fixed", version |-> v]
LastAffected(v) == [event |-> "LastAffected", version |-> v]

OsvVersionA == <<1, 0, 2>>
OsvVersionB == <<1, 2, 0>>

\* the event lists of a range: no event, one bound, both bounds in either
\* order, bounds the wrong way round, repeated bounds, an event of another kind
OsvEventLists ==
    {<<>>,
     <<LastAffected(OsvVersionA)>>,
     <<Introduced(OsvVersionA)>>,
     <<Fixed(OsvVersionB)>>,
     <<Introduced(OsvVersionA), Fixed(OsvVersionB)>>,
     <<Fixed(OsvVersionB), Introduced(OsvVersionA)>>,
     <<Introduced(OsvVersionB), Fixed(OsvVersionA)>>,
     <<Introduced(OsvVersionA), Introduced(OsvVersionB)>>,
     <<Fixed(OsvVersionA), Fixed(OsvVersionB)>>,
     <<Introduced(OsvVersionA), LastAffected(OsvVersionB)>>}

\* find_map that keeps looking: the last event of the given kind
RECURSIVE find_map_last(_, _)
find_map_last(events, kind) ==
    IF events = <<>> THEN None
    ELSE IF find_map_last(Tail(events), kind) # None
         THEN find_map_last(Tail(events), kind)
    ELSE IF Head(events).event = kind THEN Some(Head(events).version)
    ELSE None

\* the first event of the given kind (Iterator::find_map)
RECURSIVE find_map(_, _)
find_map(events, kind) ==
    IF events = <<>> THEN None
    ELSE IF Head(events).event = kind THEN Some(Head(events).version)
    ELSE find_map(Tail(events), kind)

\* events_to_range with the two event kinds exchanged
events_to_range_exchanged(events) ==
    [start |-> find_map(events, "Fixed"), end |-> find_map(events, "Introduced")]

events_to_range(events) ==
    [start |-> find_map(events, "Introduced"), end |-> find_map(events, "Fixed")]

\* the value of an Option that is Some
Unwrap(opt) == CHOOSE x \in opt : TRUE

RECURSIVE Flatten(_)
Flatten(ss) == IF Len(ss) = 0 THEN <<>> ELSE Head(ss) \o Flatten(Tail(ss))

OsvPurls == {"pkg:cargo/hyper"}
OsvAliases == {<<"GHSA-5h46-h7hh-c6x9">>,
               <<"CVE-123", "GHSA-5h46-h7hh-c6x9">>,
               <<"CVE-123", "CVE-456">>}
Cvss3Valid == "CVSS:3.1/AV:N/AC:L/PR:N/UI:N/S:U/C:N/I:H/A:H"
Cvss3Invalid == "CVSS:3.1/garbage"
OsvSeverities == {<<>>,
                  <<[severity_type |-> "CVSSv3", score |-> Cvss3Invalid],
                    [severity_type |-> "CVSSv3", score |-> Cvss3Valid],
                    [severity_type |-> "CVSSv2", score |-> Cvss3Invalid]>>}

\* affected[].package: the purl translated from ecosystem and name, and the
\* purl the package names itself
OsvPackages == [translated : Option(OsvPurls), purl : {Some(p) : p \in OsvPurls}]

\* osv::schema::Vulnerability with one affected entry of one range, and one
\* document with two entries, one of them without a package
OsvDocuments ==
    {[id |-> "RUSTSEC-2021-0079", aliases |-> a, severity |-> s,
      affected |-> <<[package |-> Some(p), ranges |-> <<e>>]>>]
        : a \in OsvAliases, s \in {<<>>}, p \in OsvPackages, e \in OsvEventLists}
    \cup
    {[id |-> "RUSTSEC-2021-0079", aliases |-> a, severity |-> s,
      affected |-> <<[package |-> None,
                      ranges |-> <<<<Introduced(OsvVersionA)>>>>],
                     [package |-> Some([translated |-> None,
                                        purl |-> Some("pkg:cargo/hyper")]),
                      ranges |-> <<<<Introduced(OsvVersionA)>>,
                                   <<Fixed(OsvVersionB)>>>>]>>]
        : a \in OsvAliases, s \in OsvSeverities}

VersionInfo(scheme, spec) == [scheme |-> scheme, spec |-> spec]

\* the statements the loader runs, in order
StatusStmt(cve, purl, status, info) ==
    [op |-> "ingest_package_status", cve |-> cve, purl |-> purl,
     status |-> status, info |-> info]
LinkStmt(cve) == [op |-> "link_to_vulnerability", cve |-> cve]
ScoreStmt(cve, score) == [op |-> "ingest_cvss3_score", cve |-> cve, score |-> score]
WarnStmt(msg) == [op |-> "warnings.error", msg |-> msg]

\* the body of `for range in affected.ranges`
range_work(cve, purl, events) ==
    LET parsed_range == events_to_range(events)
        start == parsed_range.start
        end   == parsed_range.end
        affected ==
            CASE start # None /\ end = None ->
                     <<StatusStmt(cve, purl, "affected",
                           VersionInfo("semver",
                               Range(Inclusive(Unwrap(start)), Unbounded)))>>
              [] start = None /\ end # None ->
                     <<StatusStmt(cve, purl, "affected",
                           VersionInfo("semver",
                               Range(Unbounded, Exclusive(Unwrap(end)))))>>
              [] start # None /\ end # None ->
                     <<StatusStmt(cve, purl, "affected",
                           VersionInfo("semver",
                               Range(Inclusive(Unwrap(start)),
                                     Exclusive(Unwrap(end)))))>>
              [] OTHER -> <<>>
        fixed ==
            IF end # None
            THEN <<StatusStmt(cve, purl, "fixed",
                       VersionInfo("semver", Exact(Unwrap(end))))>>
            ELSE <<>>
    IN affected \o fixed

\* purls.extend(to_purl(package)); purls.extend(Purl::from_str(package.purl))
package_purls(package) ==
    (IF package.translated = None THEN <<>> ELSE <<Unwrap(package.translated)>>)
    \o (IF package.purl = None THEN <<>> ELSE <<Unwrap(package.purl)>>)

\* the body of `for affected in &osv.affected`
affected_work(cve, affected) ==
    IF affected.package = None THEN <<>>
    ELSE LET purls == package_purls(Unwrap(affected.package))
         IN Flatten([i \in 1..Len(purls) |->
                Flatten([j \in 1..Len(affected.ranges) |->
                    range_work(cve, purls[i], affected.ranges[j])])])

\* Cvss3Base::from_str
cvss3_parses(score) == score = Cvss3Valid

\* the severity loop without the Err arm: a score that does not parse is
\* skipped without a warning
severity_work_silent(cve, severity) ==
    IF severity.severity_type # "CVSSv3" THEN <<>>
    ELSE IF cvss3_parses(severity.score) THEN <<ScoreStmt(cve, severity.score)>>
    ELSE <<>>

\* the body of `for severity in osv.severity`
severity_work(cve, severity) ==
    IF severity.severity_type # "CVSSv3" THEN <<>>
    ELSE IF cvss3_parses(severity.score) THEN <<ScoreStmt(cve, severity.score)>>
    ELSE <<WarnStmt("Unable to parse CVSS3")>>

\* aliases that start with "CVE-"
starts_with_cve(alias) == alias \in CveIds
\* cve_ids without the filter: every alias is linked
cve_ids_unfiltered(osv) == osv.aliases

cve_ids(osv) == SelectSeq(osv.aliases, starts_with_cve)

\* the body of `for cve_id in cve_ids`
cve_work(cve, osv) ==
    <<LinkStmt(cve)>>
    \o Flatten([i \in 1..Len(osv.severity) |-> severity_work(cve, osv.severity[i])])
    \o Flatten([i \in 1..Len(osv.affected) |-> affected_work(cve, osv.affected[i])])

osv_work(osv) ==
    LET ids == cve_ids(osv)
    IN Flatten([i \in 1..Len(ids) |-> cve_work(ids[i], osv)])

\* Graph::ingest_advisory: get-or-create by identifier, labels and digest
graph_ingest_advisory(d, identifier, labels, sha256) ==
    LET found == get_advisory(d, identifier, labels, sha256)
    IN IF found # None
       THEN {Out(d, r) : r \in found}
       ELSE LET row == [id |-> NextId(d, "advisory"), identifier |-> identifier,
                        location |-> labels, sha256 |-> sha256]
            IN {Out(InsertRow(d, "advisory", row), row)}

\* AdvisoryVulnerabilityContext::ingest_cvss3_score: the score list grows
ingest_cvss3_score(d, adv, cve, score) ==
    InsertRow(d, "cvss3", [row |-> NextId(d, "cvss3"), advisory_id |-> adv,
                           vulnerability |-> cve, score |-> score])

\* AdvisoryVulnerabilityContext::ingest_package_status: one assertion row
ingest_package_status(d, adv, cve, purl, status, info) ==
    InsertRow(d, "package_status",
              [row |-> NextId(d, "package_status"), advisory_id |-> adv,
               vulnerability |-> cve, purl |-> purl, status |-> status,
               scheme |-> info.scheme, spec |-> info.spec])

\* the statements of the loops run in order on the transaction; the result
\* is the set of [db, warnings] the run can end with
RECURSIVE osv_run(_, _, _, _)
osv_run(d, adv, work, warnings) ==
    IF Len(work) = 0 THEN {[db |-> d, warnings |-> warnings]}
    ELSE LET w == Head(work)
         IN CASE w.op = "link_to_vulnerability" ->
                     UNION {osv_run(o.db, adv, Tail(work), warnings)
                            : o \in ingest_cve(d, adv, w.cve)}
              [] w.op = "ingest_cvss3_score" ->
                     osv_run(ingest_cvss3_score(d, adv, w.cve, w.score),
                             adv, Tail(work), warnings)
              [] w.op = "warnings.error" ->
                     osv_run(d, adv, Tail(work), Append(warnings, w.msg))
              [] w.op = "ingest_package_status" ->
                     osv_run(ingest_package_status(d, adv, w.cve, w.purl,
                                                   w.status, w.info),
                             adv, Tail(work), warnings)

\* OsvLoader::load: either a statement fails and the transaction is rolled
\* back, or every statement ran and the transaction commits
osv_load(d, labels, osv, sha256) ==
    LET key == <<"osv_load", osv.id, sha256>>
    IN {Out(d, [status |-> "err", key |-> key, id |-> 0, created |-> FALSE,
                value |-> [id |-> 0, document_id |-> osv.id, warnings |-> <<>>]])}
       \cup
       UNION {{Out(r.db, [status |-> "ok", key |-> key, id |-> a.res.id,
                          created |-> a.db # d,
                          value |-> [id |-> a.res.id, document_id |-> osv.id,
                                     warnings |-> r.warnings]])
               : r \in osv_run(a.db, a.res.id, osv_work(osv), <<>>)}
              : a \in graph_ingest_advisory(d, osv.id, labels, sha256)}

\* the caller receives the IngestResult (or the error) of a load
ReturnValue(o, args) ==
    /\ db' = o.db
    /\ ret' = [status |-> o.res.status, key |-> o.res.key, id |-> o.res.id,
               created |-> o.res.created, args |-> args, value |-> o.res.value]
    /\ UNCHANGED returned

OsvLabels == {"RUSTSEC-2021-0079.json"}

CallOsvLoad ==
    \E labels \in OsvLabels, osv \in OsvDocuments, sha256 \in {"89"} :
        /\ Size(db) < MaxOsvRows
        /\ \E o \in osv_load(db, labels, osv, sha256) : ReturnValue(o, <<osv>>)
        /\ UNCHANGED <<task, txn, run, once>>

NextOsv ==
    \/ CallOsvLoad

SpecOsv == Init /\ [][NextOsv]_vars

\* the positions of the events of one kind in a range's event list
EventsOf(events, kind) == {i \in 1..Len(events) : events[i].event = kind}
FirstOf(events, kind) ==
    events[CHOOSE i \in EventsOf(events, kind) :
               \A j \in EventsOf(events, kind) : i <= j].version

\* the (status, spec) pairs one range yields for one purl
RangeStatuses(events) ==
    LET hasIntroduced == EventsOf(events, "Introduced") # {}
        hasFixed      == EventsOf(events, "Fixed") # {}
    IN CASE hasIntroduced /\ ~hasFixed ->
                {<<"affected", Range(Inclusive(FirstOf(events, "Introduced")),
                                     Unbounded)>>}
         [] ~hasIntroduced /\ hasFixed ->
                {<<"affected", Range(Unbounded,
                                     Exclusive(FirstOf(events, "Fixed")))>>,
                 <<"fixed", Exact(FirstOf(events, "Fixed"))>>}
         [] hasIntroduced /\ hasFixed ->
                {<<"affected", Range(Inclusive(FirstOf(events, "Introduced")),
                                     Exclusive(FirstOf(events, "Fixed")))>>,
                 <<"fixed", Exact(FirstOf(events, "Fixed"))>>}
         [] OTHER -> {}

\* every (CVE alias, affected entry, resolved purl, range) of a document, by
\* position
RangeOccurrences(osv) ==
    {occ \in (1..Len(osv.aliases)) \X (1..Len(osv.affected)) \X (1..2) \X (1..2) :
        /\ starts_with_cve(osv.aliases[occ[1]])
        /\ osv.affected[occ[2]].package # None
        /\ occ[3] <= Len(package_purls(Unwrap(osv.affected[occ[2]].package)))
        /\ occ[4] <= Len(osv.affected[occ[2]].ranges)}

OccurrencePurl(osv, occ) ==
    package_purls(Unwrap(osv.affected[occ[2]].package))[occ[3]]
OccurrenceEvents(osv, occ) == osv.affected[occ[2]].ranges[occ[4]]

InvertedBounds(events) ==
    /\ EventsOf(events, "Introduced") # {}
    /\ EventsOf(events, "Fixed") # {}
    /\ compare("semver", FirstOf(events, "Introduced"),
               FirstOf(events, "Fixed")) = "Greater"

\* C14: when a load that succeeds has processed a range with inverted bounds
\* (introduced > fixed in the semver ordering), the warnings of its
\* IngestResult hold an entry for that range (an entry other than the CVSS
\* parse failures).
C14_InvertedRangeReported ==
    (/\ ret.key[1] = "osv_load" /\ ret.status = "ok"
     /\ \E occ \in RangeOccurrences(ret.args[1]) :
            InvertedBounds(OccurrenceEvents(ret.args[1], occ)))
    => \E i \in 1..Len(ret.value.warnings) :
           ret.value.warnings[i] # "Unable to parse CVSS3"

----------------------------------------------------------------------------
(* modules/ingestor/src/graph/sbom/mod.rs: SbomContext, the relationship   *)
(* graph (self.sbom = sbom, a row of the sbom table)                       *)

Relationships == {"DescribedBy", "DependencyOf", "ContainedBy"}

GraphPackages == {"A", "B", "C"}
GraphPurls == [pkg : GraphPackages, ver : {"1.0"}]

\* Purl::to_string
purl_to_string(purl) == "pkg:maven/" \o purl.pkg \o "@" \o purl.ver

\* Purl::qualifier_uuid: the id of the qualified package, derived from the purl
qualifier_uuid(purl) == "uuid5:" \o purl_to_string(purl)

\* Cpe::to_string
cpe_to_string(cpe) == "cpe:/a:" \o cpe.vendor \o ":" \o cpe.product

\* enum RelationshipReference { Root, Purl(Purl), Cpe(Cpe) }
RootRef == [ref |-> "Root", purl |-> [pkg |-> "", ver |-> ""],
            cpe |-> [vendor |-> "", product |-> ""]]
PurlRef(purl) == [ref |-> "Purl", purl |-> purl,
                  cpe |-> [vendor |-> "", product |-> ""]]
CpeRef(cpe) == [ref |-> "Cpe", purl |-> [pkg |-> "", ver |-> ""], cpe |-> cpe]

\* Graph::get_cpe
get_cpe(d, cpe) == {c \in d.cpe : c.cpe = cpe}

\* Graph::ingest_cpe22: the row of the CPE, created if missing
ingest_cpe22(d, cpe) ==
    IF get_cpe(d, cpe) # None THEN d
    ELSE InsertRow(d, "cpe", [id |-> NextId(d, "cpe"), cpe |-> cpe])

\* PurlCreator::create: the qualified packages of the purls, created if missing
purl_creator_create(d, purls) ==
    [d EXCEPT !.qualified_package =
         @ \cup {[id |-> qualifier_uuid(purl), purl |-> purl] : purl \in purls}]

\* SbomContext::ingest_package: PackageCreator::add and create, the node, the
\* package and its purl references, created if missing
ingest_package(d, sbom, node_id, name, purls, cpes) ==
    [d EXCEPT
       !.sbom_node = @ \cup {[sbom_id |-> sbom.sbom_id, node_id |-> node_id,
                              name |-> name]},
       !.sbom_package = @ \cup {[sbom_id |-> sbom.sbom_id, node_id |-> node_id]},
       !.sbom_package_purl_ref =
           @ \cup {[sbom_id |-> sbom.sbom_id, node_id |-> node_id,
                    qualified_package_id |-> q] : q \in purls},
       !.sbom_package_cpe_ref =
           @ \cup {[sbom_id |-> sbom.sbom_id, node_id |-> node_id,
                    cpe_id |-> c] : c \in cpes}]

\* PackageCreator::relate and create: the edge row, created if missing
relate(d, sbom, left_node_id, relationship, right_node_id) ==
    [d EXCEPT !.package_relates_to_package =
         @ \cup {[sbom_id |-> sbom.sbom_id, left_node_id |-> left_node_id,
                  relationship |-> relationship,
                  right_node_id |-> right_node_id]}]

\* the (node_id, purls, cpes) of one side of
\* ingest_package_relates_to_package; d holds the CPE the side ingested
reference_node(d, reference) ==
    CASE reference.ref = "Root" -> [node_id |-> None, purls |-> {}, cpes |-> {}]
      [] reference.ref = "Purl" ->
             [node_id |-> Some(purl_to_string(reference.purl)),
              purls |-> {qualifier_uuid(reference.purl)}, cpes |-> {}]
      [] reference.ref = "Cpe" ->
             [node_id |-> Some(cpe_to_string(reference.cpe)),
              purls |-> {},
              cpes |-> {c.id : c \in get_cpe(d, reference.cpe)}]

\* ingest_package_relates_to_package that creates no node for its right side
ingest_package_relates_to_package_right_unchecked(d, sbom, left, relationship, right) ==
    LET dl == IF left.ref = "Cpe" THEN ingest_cpe22(d, left.cpe) ELSE d
        l  == reference_node(dl, left)
        r  == reference_node(dl, right)
        d1 == purl_creator_create(dl,
                  {x.purl : x \in {y \in {left, right} : y.ref = "Purl"}})
        d2 == IF l.node_id # None
              THEN ingest_package(d1, sbom, Unwrap(l.node_id), Unwrap(l.node_id),
                                  l.purls, l.cpes)
              ELSE d1
        left_node_id  == IF l.node_id # None THEN Unwrap(l.node_id) ELSE sbom.node_id
        right_node_id == IF r.node_id # None THEN Unwrap(r.node_id) ELSE sbom.node_id
    IN relate(d2, sbom, left_node_id, relationship, right_node_id)

ingest_package_relates_to_package(d, sbom, left, relationship, right) ==
    LET dl == IF left.ref = "Cpe" THEN ingest_cpe22(d, left.cpe) ELSE d
        l  == reference_node(dl, left)
        dr == IF right.ref = "Cpe" THEN ingest_cpe22(dl, right.cpe) ELSE dl
        r  == reference_node(dr, right)
        d1 == purl_creator_create(dr,
                  {x.purl : x \in {y \in {left, right} : y.ref = "Purl"}})
        d2 == IF l.node_id # None
              THEN ingest_package(d1, sbom, Unwrap(l.node_id), Unwrap(l.node_id),
                                  l.purls, l.cpes)
              ELSE d1
        d3 == IF r.node_id # None
              THEN ingest_package(d2, sbom, Unwrap(r.node_id), Unwrap(r.node_id),
                                  r.purls, r.cpes)
              ELSE d2
        left_node_id  == IF l.node_id # None THEN Unwrap(l.node_id) ELSE sbom.node_id
        right_node_id == IF r.node_id # None THEN Unwrap(r.node_id) ELSE sbom.node_id
    IN relate(d3, sbom, left_node_id, relationship, right_node_id)

\* SbomContext::ingest_describes_package
ingest_describes_package(d, sbom, package) ==
    ingest_package_relates_to_package(d, sbom, RootRef, "DescribedBy",
                                      PurlRef(package))

\* SbomContext::query_describes_packages: sbom_package JOIN sbom JOIN
\* sbom_node JOIN package_relates_to_package (the package is the right node)
\* JOIN sbom_node AS source (the left node), filtered by sbom id and kind
query_describes_packages(d, sbom) ==
    {sp \in d.sbom_package :
        /\ \E s \in d.sbom : s.sbom_id = sp.sbom_id /\ s.sbom_id = sbom.sbom_id
        /\ \E n \in d.sbom_node : n.sbom_id = sp.sbom_id /\ n.node_id = sp.node_id
        /\ \E e \in d.package_relates_to_package :
               /\ e.sbom_id = sp.sbom_id /\ e.right_node_id = sp.node_id
               /\ e.relationship = "DescribedBy"
               /\ \E source \in d.sbom_node :
                      source.sbom_id = e.sbom_id /\ source.node_id = e.left_node_id}

\* Graph::get_qualified_packages_by_query: the qualified packages whose id
\* the query selects
get_qualified_packages_by_query(d, ids) ==
    {q \in d.qualified_package : q.id \in ids}

\* SbomContext::describes_purls
describes_purls(d, sbom) ==
    get_qualified_packages_by_query(d,
        {ref.qualified_package_id :
            ref \in {x \in d.sbom_package_purl_ref :
                        \E sp \in query_describes_packages(d, sbom) :
                            x.sbom_id = sp.sbom_id /\ x.node_id = sp.node_id}})

\* Graph::get_qualified_package
get_qualified_package(d, purl) == {q \in d.qualified_package : q.purl = purl}

\* the purl references of a node of an SBOM
NodePackages(d, sbom_id, node_id) ==
    {ref.qualified_package_id :
        ref \in {x \in d.sbom_package_purl_ref :
                    x.sbom_id = sbom_id /\ x.node_id = node_id}}

\* the edges of the given kinds the given SBOMs own, between packages
PackageEdges(d, sbom_ids, relationships) ==
    UNION {NodePackages(d, e.sbom_id, e.left_node_id)
               \X NodePackages(d, e.sbom_id, e.right_node_id)
           : e \in {x \in d.package_relates_to_package :
                       x.sbom_id \in sbom_ids /\ x.relationship \in relationships}}

SeqToSet(s) == {s[i] : i \in 1..Len(s)}

\* the rows of package_relates_to_package, between packages, that end (on
\* their right) in package n
EdgesInto(edges, n) == {e \in edges : e[2] = n}

\* the recursive query re-expanding every package it reaches, until it gives up
RECURSIVE transitive_reexpanding(_, _, _, _)
transitive_reexpanding(edges, frontier, rows, expanded) ==
    IF frontier = {} \/ Len(expanded) >= MaxExpansions
    THEN [rows |-> rows, expanded |-> expanded]
    ELSE LET n     == CHOOSE x \in frontier : TRUE
             found == EdgesInto(edges, n)
         IN transitive_reexpanding(edges,
                (frontier \ {n}) \cup {e[1] : e \in found},
                rows \cup found, Append(expanded, n))

\* the recursive query: a package of the frontier is expanded to the edges
\* that end in it, these edges join the result rows, and their left packages
\* join the frontier unless expanded before, until the frontier is empty
RECURSIVE transitive(_, _, _, _)
transitive(edges, frontier, rows, expanded) ==
    IF frontier = {}
    THEN [rows |-> rows, expanded |-> expanded]
    ELSE LET n     == CHOOSE x \in frontier : TRUE
             found == EdgesInto(edges, n)
             done  == Append(expanded, n)
         IN transitive(edges,
                (frontier \cup {e[1] : e \in found}) \ SeqToSet(done),
                rows \cup found, done)

\* qualified_package_transitive that expands a package every time it is reached
qualified_package_transitive_reexpanding(d, sbom_id, start, relationships) ==
    transitive_reexpanding(PackageEdges(d, {sbom_id}, relationships),
                           {start}, {}, <<>>)

\* qualified_package_transitive that follows the edges of every kind
qualified_package_transitive_any_relationship(d, sbom_id, start, relationships) ==
    transitive(PackageEdges(d, {sbom_id}, Relationships), {start}, {}, <<>>)

\* qualified_package_transitive that follows the edges of every SBOM
qualified_package_transitive_any_sbom(d, sbom_id, start, relationships) ==
    transitive(PackageEdges(d, {x.sbom_id : x \in d.sbom}, relationships),
               {start}, {}, <<>>)

\* the database function qualified_package_transitive(sbom_id, package_id,
\* relationships): rows (left_package_id, right_package_id), the edges found
\* from the start package
qualified_package_transitive(d, sbom_id, start, relationships) ==
    transitive(PackageEdges(d, {sbom_id}, relationships), {start}, {}, <<>>)

\* SbomContext::related_packages_transitively: the column left_package_id of
\* the function's rows; `expanded` is the order in which the query expanded
\* packages
related_packages_transitively(d, sbom, relationships, purl) ==
    LET pkg == get_qualified_package(d, purl)
    IN IF pkg # None
       THEN LET t == qualified_package_transitive(d, sbom.sbom_id,
                                                  Unwrap(pkg).id, relationships)
            IN [packages |-> get_qualified_packages_by_query(d,
                                 {row[1] : row \in t.rows}),
                expanded |-> t.expanded]
       ELSE [packages |-> {}, expanded |-> <<>>]

----------------------------------------------------------------------------
(* Calls that build and query the relationship graph of SBOMs              *)

PurlA == [pkg |-> "A", ver |-> "1.0"]
PurlB == [pkg |-> "B", ver |-> "1.0"]
PurlC == [pkg |-> "C", ver |-> "1.0"]

Edge(left, relationship, right) ==
    [left |-> left, relationship |-> relationship, right |-> right]

\* the relationships the callers ingest: the root describes A, the cycle
\* A -> B -> C -> A, A contained by C, and A described by B
GraphEdges ==
    {Edge(RootRef, "DescribedBy", PurlRef(PurlA)),
     Edge(PurlRef(PurlA), "DependencyOf", PurlRef(PurlB)),
     Edge(PurlRef(PurlB), "DependencyOf", PurlRef(PurlC)),
     Edge(PurlRef(PurlC), "DependencyOf", PurlRef(PurlA)),
     Edge(PurlRef(PurlA), "ContainedBy", PurlRef(PurlC)),
     Edge(PurlRef(PurlA), "DescribedBy", PurlRef(PurlB))}

GraphSbomInformation ==
    [node_id |-> "SPDXRef-DOCUMENT", name |-> "sbom", published |-> None,
     authors |-> <<"Red Hat">>]

CallIngestSbomDocument(digestSet) ==
    \E location \in SbomLocations, digests \in digestSet :
        \E o \in ingest_sbom(db, location, digests, "doc-1", GraphSbomInformation) :
            /\ db' = o.db
            /\ ret' = Value(<<"ingest_sbom">>, <<>>, o.res.id)
            /\ UNCHANGED <<returned, task, txn, run, once>>

CallIngestPackageRelatesToPackage(edges) ==
    \E sbom \in db.sbom, e \in edges :
        /\ Cardinality(db.package_relates_to_package) < MaxEdges
        /\ db' = ingest_package_relates_to_package(db, sbom, e.left,
                                                   e.relationship, e.right)
        /\ ret' = Value(<<"ingest_package_relates_to_package">>, <<>>, TRUE)
        /\ UNCHANGED <<returned, task, txn, run, once>>

CallDescribesPurls ==
    \E sbom \in db.sbom :
        Answer(<<"describes_purls">>, <<sbom>>, describes_purls(db, sbom))

RelationshipSets == {{"DependencyOf"}, {"DependencyOf", "ContainedBy"}}

CallRelatedPackagesTransitively ==
    \E sbom \in db.sbom, relationships \in RelationshipSets, pkg \in GraphPurls :
        Answer(<<"related_packages_transitively">>, <<sbom, relationships, pkg>>,
               related_packages_transitively(db, sbom, relationships, pkg))

NextClosure ==
    \/ CallIngestSbomDocument(Sha256Digests)
    \/ CallIngestPackageRelatesToPackage(GraphEdges)
    \/ CallDescribesPurls
    \/ CallRelatedPackagesTransitively

SpecClosure == Init /\ [][NextClosure]_vars

\* the last call was the closure query
ClosureAnswered == ret.key[1] = "related_packages_transitively"

\* the packages of the cycle A -> B -> C -> A that an SBOM owns
HasCycle(sbom) ==
    \A e \in {<<PurlA, PurlB>>, <<PurlB, PurlC>>, <<PurlC, PurlA>>} :
        [sbom_id |-> sbom.sbom_id, left_node_id |-> purl_to_string(e[1]),
         relationship |-> "DependencyOf",
         right_node_id |-> purl_to_string(e[2])] \in db.package_relates_to_package

\* C15: the closure query ends on every edge set, cyclic ones included: it
\* expands no package twice, it expands at most the packages of the store,
\* and on the cycle A -> B -> C -> A via DependencyOf it returns {A, B, C}.
C15_ClosureTerminates ==
    ClosureAnswered =>
        LET expanded == ret.value.expanded
        IN /\ \A i, j \in 1..Len(expanded) : i # j => expanded[i] # expanded[j]
           /\ Len(expanded) <= Cardinality(db.qualified_package)
           /\ HasCycle(ret.args[1])
              => {q.purl : q \in ret.value.packages} = {PurlA, PurlB, PurlC}

\* the closure was asked on an SBOM that owns the cycle and expanded all
\* three packages
C15_Witness ==
    /\ ClosureAnswered
    /\ HasCycle(ret.args[1])
    /\ Len(ret.value.expanded) = 3
    /\ {q.purl : q \in ret.value.packages} = {PurlA, PurlB, PurlC}

\* the sequences of package ids that lead from one package to another, each
\* step going from the right end of an edge to its left end
Paths(edges, from, to) ==
    LET ids == {q.id : q \in db.qualified_package}
    IN {path \in UNION {[1..n -> ids] : n \in 2..(Cardinality(ids) + 1)} :
           /\ path[1] = from
           /\ path[Len(path)] = to
           /\ \A i \in 1..(Len(path) - 1) : <<path[i + 1], path[i]>> \in edges}

OnlyEdgesOf(d, sbom) ==
    [d EXCEPT !.package_relates_to_package = {e \in @ : e.sbom_id = sbom.sbom_id}]

\* C17: the closure computed for one SBOM follows the edges of that SBOM
\* only: the answer is the one the query gives when the edges of every other
\* SBOM are taken away, also when the SBOMs share packages.
C17_ClosureWithinSbom ==
    ClosureAnswered =>
        ret.value.packages
            = related_packages_transitively(OnlyEdgesOf(db, ret.args[1]),
                  ret.args[1], ret.args[2], ret.args[3]).packages

\* two SBOMs contain the start package; the other SBOM owns an edge of a
\* requested kind that ends in it and starts at a package the answer does
\* not hold
C17_Witness ==
    /\ ClosureAnswered
    /\ \E e \in db.package_relates_to_package, own \in db.sbom_package :
           /\ e.sbom_id # ret.args[1].sbom_id
           /\ e.relationship \in ret.args[2]
           /\ e.right_node_id = purl_to_string(ret.args[3])
           /\ own.sbom_id = ret.args[1].sbom_id
           /\ own.node_id = purl_to_string(ret.args[3])
           /\ \A q \in ret.value.packages : purl_to_string(q.purl) # e.left_node_id

\* C20: describes_purls returns exactly the packages P with a purl for which
\* the SBOM owns the edge (root node of the SBOM, DescribedBy, P).
C20_DescribesPurlsFromRoot ==
    ret.key[1] = "describes_purls" =>
        LET sbom == ret.args[1]
        IN ret.value
             = {q \in db.qualified_package :
                   \E e \in db.package_relates_to_package :
                       /\ e.sbom_id = sbom.sbom_id
                       /\ e.left_node_id = sbom.node_id
                       /\ e.relationship = "DescribedBy"
                       /\ q.id \in NodePackages(db, sbom.sbom_id, e.right_node_id)}

----------------------------------------------------------------------------
(* SbomContext::vulnerability_assertions                                   *)

Assertion(status, advisory_id, spec) ==
    [status |-> status, advisory_id |-> advisory_id, spec |-> spec]

\* QualifiedPackageContext::vulnerability_assertions: the status assertions
\* the advisories make about the package
package_vulnerability_assertions(d, q) ==
    LET versions == {pv \in d.package_version : pv.pkg = q.purl.pkg}
        ranges   == {pvr \in d.package_version_range : pvr.pkg = q.purl.pkg}
    IN [assertions |->
          UNION {{Assertion("fixed", r.advisory_id, <<pv.version>>)
                  : r \in {x \in d.fixed_package_version :
                              x.package_version_id = pv.id}}
                 : pv \in versions}
          \cup
          UNION {{Assertion("not_affected", r.advisory_id, <<pv.version>>)
                  : r \in {x \in d.not_affected_package_version :
                              x.package_version_id = pv.id}}
                 : pv \in versions}
          \cup
          UNION {{Assertion("affected", r.advisory_id, <<pvr.start, pvr.end>>)
                  : r \in {x \in d.affected_package_version_range :
                              x.package_version_range_id = pvr.id}}
                 : pvr \in ranges}]

\* the packages the closure step finds: the closure query runs on the
\* connection (Transactional::None), whose tables are d
applicable_packages(described, d, sbom) ==
    UNION {related_packages_transitively(d, sbom,
               {"DependencyOf", "ContainedBy"}, pkg.purl).packages
           : pkg \in described}

\* vulnerability_assertions that keeps packages without assertions
vulnerability_assertions_keep_empty(v, d, sbom) ==
    LET applicable == applicable_packages(describes_purls(v, sbom), d, sbom)
    IN [pkg \in applicable |-> package_vulnerability_assertions(v, pkg)]

\* SbomContext::vulnerability_assertions(tx): v is the view of tx, d the
\* tables the connection sees
vulnerability_assertions(v, d, sbom) ==
    LET applicable == applicable_packages(describes_purls(v, sbom), d, sbom)
    IN [pkg \in {x \in applicable :
                    package_vulnerability_assertions(v, x).assertions # {}}
        |-> package_vulnerability_assertions(v, pkg)]

\* the relationships of an SBOM that describes A: A is a dependency of B, B
\* is a dependency of A, C is contained by A
AssertionEdges ==
    {Edge(RootRef, "DescribedBy", PurlRef(PurlA)),
     Edge(PurlRef(PurlA), "DependencyOf", PurlRef(PurlB)),
     Edge(PurlRef(PurlB), "DependencyOf", PurlRef(PurlA)),
     Edge(PurlRef(PurlC), "ContainedBy", PurlRef(PurlA))}

AssertedPackages == {"B"}

StatusRows(d) ==
    Cardinality(d.fixed_package_version)
    + Cardinality(d.affected_package_version_range)

\* an advisory asserts the package fixed at version 2.0
CallAssertFixed ==
    \E a \in db.advisory, pkg \in AssertedPackages :
        /\ StatusRows(db) < MaxAssertions
        /\ \E o \in ingest_fixed_package_version(db, a.id,
                        [pkg |-> pkg, ver |-> "2.0"]) :
               /\ db' = o.db
               /\ ret' = Value(<<"ingest_fixed_package_version">>, <<>>, o.res.id)
        /\ UNCHANGED <<returned, task, txn, run, once>>

\* an advisory asserts the package affected in the range [1.0, 2.0)
CallAssertAffected ==
    \E a \in db.advisory, pkg \in AssertedPackages :
        /\ StatusRows(db) < MaxAssertions
        /\ \E o \in ingest_affected_package_range(db, a.id, pkg, "1.0", "2.0") :
               /\ db' = o.db
               /\ ret' = Value(<<"ingest_affected_package_range">>, <<>>, o.res.id)
        /\ UNCHANGED <<returned, task, txn, run, once>>

CallVulnerabilityAssertions ==
    \E sbom \in db.sbom :
        Answer(<<"vulnerability_assertions">>, <<sbom>>,
               vulnerability_assertions(db, db, sbom))

NextAssertions ==
    \/ CallIngestSbomDocument({<<18, 52>>})
    \/ CallIngestPackageRelatesToPackage(AssertionEdges)
    \/ CallIngestAdvisory
    \/ CallAssertFixed
    \/ CallAssertAffected
    \/ CallVulnerabilityAssertions

SpecAssertions == Init /\ [][NextAssertions]_vars

AssertionsAnswered == ret.key[1] = "vulnerability_assertions"

OwnsEdge(sbom, left_node_id, relationship, right_node_id) ==
    [sbom_id |-> sbom.sbom_id, left_node_id |-> left_node_id,
     relationship |-> relationship, right_node_id |-> right_node_id]
        \in db.package_relates_to_package

\* the SBOM describes P = A and owns the edge A DependencyOf B
DescribesWithDependency(sbom) ==
    /\ OwnsEdge(sbom, sbom.node_id, "DescribedBy", purl_to_string(PurlA))
    /\ OwnsEdge(sbom, purl_to_string(PurlA), "DependencyOf", purl_to_string(PurlB))

\* advisory adv asserts Q = B fixed at 2.0 and affected in [1.0, 2.0)
AssertsFixedAndAffected(adv) ==
    /\ get_fixed_package_version(db, adv, [pkg |-> "B", ver |-> "2.0"]) # None
    /\ get_affected_package_range(db, adv, "B", "1.0", "2.0") # None

----------------------------------------------------------------------------
(* modules/ingestor/src/graph/sbom/mod.rs: Graph::locate_sbom and          *)
(* Graph::locate_sboms                                                     *)

\* enum SbomLocator { Id(Uuid), Location(String), Sha256(String), Purl(Purl),
\* Cpe(Cpe) }: the variant and its value, the other fields left empty
NoLocator ==
    [kind |-> "", id |-> 0, location |-> "", sha256 |-> <<>>,
     purl |-> [pkg |-> "", ver |-> ""],
     cpe |-> [vendor |-> "", product |-> ""]]
LocatorId(id) == [NoLocator EXCEPT !.kind = "Id", !.id = id]
LocatorLocation(location) == [NoLocator EXCEPT !.kind = "Location", !.location = location]
LocatorSha256(sha256) == [NoLocator EXCEPT !.kind = "Sha256", !.sha256 = sha256]
LocatorPurl(purl) == [NoLocator EXCEPT !.kind = "Purl", !.purl = purl]
LocatorCpe(cpe) == [NoLocator EXCEPT !.kind = "Cpe", !.cpe = cpe]

\* locate_one_sbom: query.one(), any one row of the query, if there is one
locate_one_sbom(d, query) ==
    IF query = {} THEN {Out(d, None)} ELSE {Out(d, Some(s)) : s \in query}

\* locate_many_sboms: query.all()
locate_many_sboms(d, query) == {Out(d, query)}

locate_sbom_by_id(d, id) ==
    LET found == {s \in d.sbom : s.sbom_id = id}
    IN IF found = {} THEN {Out(d, None)} ELSE {Out(d, Some(s)) : s \in found}

locate_sbom_by_location(d, location) ==
    locate_one_sbom(d, {s \in d.sbom : s.location = location})

locate_sboms_by_location(d, location) ==
    locate_many_sboms(d, {s \in d.sbom : s.location = location})

locate_sbom_by_sha256(d, sha256) ==
    locate_one_sbom(d, {s \in d.sbom : s.sha256 = sha256})

locate_sboms_by_sha256(d, sha256) ==
    locate_many_sboms(d, {s \in d.sbom : s.sha256 = sha256})

\* query_by_purl: sbom JOIN sbom_package JOIN sbom_package_purl_ref, filtered
\* by the id of the qualified package
query_by_purl(d, package) ==
    {s \in d.sbom :
        \E sp \in d.sbom_package, ref \in d.sbom_package_purl_ref :
            /\ sp.sbom_id = s.sbom_id
            /\ ref.sbom_id = sp.sbom_id /\ ref.node_id = sp.node_id
            /\ ref.qualified_package_id = package.id}

\* query_by_cpe: sbom JOIN sbom_package JOIN sbom_package_cpe_ref, filtered
\* by the id of the CPE
query_by_cpe(d, cpe) ==
    {s \in d.sbom :
        \E sp \in d.sbom_package, ref \in d.sbom_package_cpe_ref :
            /\ sp.sbom_id = s.sbom_id
            /\ ref.sbom_id = sp.sbom_id /\ ref.node_id = sp.node_id
            /\ ref.cpe_id = cpe.id}

\* locate_sbom_by_purl that creates the qualified package it does not find
locate_sbom_by_purl_creating(d, purl) ==
    LET d1 == purl_creator_create(d, {purl})
    IN locate_one_sbom(d1, query_by_purl(d1, Unwrap(get_qualified_package(d1, purl))))

locate_sbom_by_purl(d, purl) ==
    LET package == get_qualified_package(d, purl)
    IN IF package # None
       THEN locate_one_sbom(d, query_by_purl(d, Unwrap(package)))
       ELSE {Out(d, None)}

locate_sboms_by_purl(d, purl) ==
    LET package == get_qualified_package(d, purl)
    IN IF package # None
       THEN locate_many_sboms(d, query_by_purl(d, Unwrap(package)))
       ELSE {Out(d, {})}

locate_sbom_by_cpe22(d, cpe) ==
    LET found == get_cpe(d, cpe)
    IN IF found # None
       THEN locate_one_sbom(d, query_by_cpe(d, Unwrap(found)))
       ELSE {Out(d, None)}

locate_sboms_by_cpe22(d, cpe) ==
    LET found == get_cpe(d, cpe)
    IN IF found # None
       THEN locate_many_sboms(d, query_by_cpe(d, Unwrap(found)))
       ELSE {Out(d, {})}

locate_sbom(d, sbom_locator) ==
    CASE sbom_locator.kind = "Id" -> locate_sbom_by_id(d, sbom_locator.id)
      [] sbom_locator.kind = "Location" ->
             locate_sbom_by_location(d, sbom_locator.location)
      [] sbom_locator.kind = "Sha256" ->
             locate_sbom_by_sha256(d, sbom_locator.sha256)
      [] sbom_locator.kind = "Purl" -> locate_sbom_by_purl(d, sbom_locator.purl)
      [] sbom_locator.kind = "Cpe" -> locate_sbom_by_cpe22(d, sbom_locator.cpe)

locate_sboms(d, sbom_locator) ==
    CASE sbom_locator.kind = "Id" ->
             {Out(o.db, o.res) : o \in locate_sbom_by_id(d, sbom_locator.id)}
      [] sbom_locator.kind = "Location" ->
             locate_sboms_by_location(d, sbom_locator.location)
      [] sbom_locator.kind = "Sha256" ->
             locate_sboms_by_sha256(d, sbom_locator.sha256)
      [] sbom_locator.kind = "Purl" -> locate_sboms_by_purl(d, sbom_locator.purl)
      [] sbom_locator.kind = "Cpe" -> locate_sboms_by_cpe22(d, sbom_locator.cpe)

\* the locators the calls are made with: ids, locations and digests of SBOMs
\* the store may hold or not, a purl and a CPE an SBOM may describe or not
LocatePurl == [pkg |-> "A", ver |-> "1.0"]
LocateCpe == [vendor |-> "redhat", product |-> "enterprise_linux"]

SbomLocators ==
    {LocatorId(id) : id \in 1..3}
    \cup {LocatorLocation(l) : l \in SbomLocations \cup {"http://sbom.example/none"}}
    \cup {LocatorSha256(encode_hex(x)) : x \in Sha256Digests}
    \cup {LocatorPurl(LocatePurl), LocatorCpe(LocateCpe)}

\* what the SBOMs of the store describe
LocateEdges ==
    {[left |-> RootRef, relationship |-> "DescribedBy", right |-> PurlRef(LocatePurl)],
     [left |-> RootRef, relationship |-> "DescribedBy", right |-> CpeRef(LocateCpe)]}

CallLocateSbom ==
    \E sbom_locator \in SbomLocators :
        \E o \in locate_sbom(db, sbom_locator) :
            /\ db' = o.db
            /\ ret' = Value(<<"locate_sbom">>, <<sbom_locator>>, o.res)
            /\ UNCHANGED <<returned, task, txn, run, once>>

CallLocateSboms ==
    \E sbom_locator \in SbomLocators :
        \E o \in locate_sboms(db, sbom_locator) :
            /\ db' = o.db
            /\ ret' = Value(<<"locate_sboms">>, <<sbom_locator>>, o.res)
            /\ UNCHANGED <<returned, task, txn, run, once>>

NextLocate ==
    \/ CallIngestSbomDocument(Sha256Digests)
    \/ CallIngestPackageRelatesToPackage(LocateEdges)
    \/ CallLocateSbom
    \/ CallLocateSboms

SpecLocate == Init /\ [][NextLocate]_vars

\* the requested SBOM, package or CPE is in the tables d
LocatorExists(d, sbom_locator) ==
    CASE sbom_locator.kind = "Id" ->
             \E s \in d.sbom : s.sbom_id = sbom_locator.id
      [] sbom_locator.kind = "Location" ->
             \E s \in d.sbom : s.location = sbom_locator.location
      [] sbom_locator.kind = "Sha256" ->
             \E s \in d.sbom : s.sha256 = sbom_locator.sha256
      [] sbom_locator.kind = "Purl" ->
             \E q \in d.qualified_package : q.purl = sbom_locator.purl
      [] sbom_locator.kind = "Cpe" ->
             \E c \in d.cpe : c.cpe = sbom_locator.cpe

\* C28: a call of locate_sbom or locate_sboms, whatever the kind of its
\* locator, leaves every table as it was, and what it asked for and did not
\* find is not in the store after the call either.
C28_LocateNonMutating ==
    [][ret'.key[1] \in {"locate_sbom", "locate_sboms"}
       => /\ db' = db
          /\ ~LocatorExists(db, ret'.args[1]) => ~LocatorExists(db', ret'.args[1])]_vars

\* locate_sbom by purl answered None for a purl the store, which holds an
\* SBOM, does not know
C28_Witness ==
    /\ ret.key[1] = "locate_sbom"
    /\ ret.args[1].kind = "Purl"
    /\ ret.value = None
    /\ db.sbom # {}
    /\ ~LocatorExists(db, ret.args[1])

----------------------------------------------------------------------------
(* modules/importer/src/server/sbom/mod.rs: ImportRunner::run_once_sbom,   *)
(* one scheduled run of an SBOM importer over the documents of its source  *)

\* what a listed document turns out to be: one that is ingested, one whose
\* content does not parse, one whose signature does not validate, one whose
\* key the only_patterns reject
DocKinds == {"good", "malformed", "unsigned", "excluded"}

\* the key of the document at a position of the listing
DocKeys == <<"sbom-01", "sbom-02", "sbom-03", "sbom-04", "sbom-05",
             "sbom-06", "sbom-07", "sbom-08", "sbom-09", "sbom-10">>

\* a listing of ten documents of which the fourth does not parse
TenDocuments == [i \in 1..Len(DocKeys) |-> IF i = 4 THEN "malformed" ELSE "good"]

Listings == UNION {[1..n -> DocKinds] : n \in 0..MaxDocs} \cup {TenDocuments}

FetchRetries == {None} \cup {Some(n) : n \in 0..MaxRetries}

\* the importers the runs are made with: those every part of which can be
\* built, and one for each part that cannot
Importers ==
    {[NoImporter EXCEPT !.fetch_retries = n, !.documents = l]
        : n \in FetchRetries, l \in Listings}
    \cup {[NoImporter EXCEPT !.source_ok = FALSE],
          [NoImporter EXCEPT !.fetcher_ok = FALSE],
          [NoImporter EXCEPT !.options_ok = FALSE],
          [NoImporter EXCEPT !.patterns_ok = FALSE]}

\* a message of the report: the item, its outcome and the phase it is from
Entry(item, outcome, phase) == [item |-> item, outcome |-> outcome, phase |-> phase]

\* a visitor was called for an item
Event(item, stage) == [item |-> item, stage |-> stage]

\* RunOutput { report, continuation }
RunOutput(report, continuation) == [report |-> report, continuation |-> continuation]

\* importer.fetch_retries.unwrap_or_default(): the retries of the fetcher
retries(importer) ==
    IF importer.fetch_retries = None THEN 0 ELSE Unwrap(importer.fetch_retries)

\* the visitors without the filter: Walker::walk(visitor)
visitor_chain_unfiltered(importer) ==
    <<"retrieve", "validate", "report", "storage">>

\* the visitors in the order they call each other: the walker calls the
\* filter, the filter the retriever, the retriever the validator, the
\* validator the report visitor, which wraps the storage visitor
visitor_chain(importer) ==
    <<"filter", "retrieve", "validate", "report", "storage">>

\* report.lock() and a push that replaces what the accumulator holds
report_add_replacing(report, entry) == <<entry>>

\* report.lock() and a push: the accumulator with one more message
report_add(report, entry) == Append(report, entry)

\* ReportBuilder::build
build(report) == report

\* the position of the item of the last message of the report
continuation_of_last_message(report) ==
    IF Len(report) = 0 THEN None ELSE Some(report[Len(report)].item)

\* the position of the item the report last records a success for
continuation_of(report) ==
    LET done == {i \in 1..Len(report) : report[i].outcome = "success"}
    IN IF done = {} THEN None
       ELSE Some(report[CHOOSE i \in done : \A j \in done : j <= i].item)

\* report.build().into(): the output of a run whose walk returned Ok
run_output_ok(r) ==
    RunOutput(build(r.report), continuation_of(build(r.report)))

\* the output of a failed walk, with the continuation of a walk that ended
run_output_failed_continuing(r) ==
    RunOutput(build(r.report), continuation_of(build(r.report)))

\* the output of a run whose walk returned an error: the report so far and
\* no continuation
run_output_failed(r) == RunOutput(build(r.report), None)

\* the run returned to its caller; r.failed keeps the error, if any
finish(r, result, output, err) ==
    [r EXCEPT !.pc = "done", !.result = result, !.output = output,
              !.current = 0, !.stage = 0, !.failed = err, !.pending = None]

\* Err(ScannerError::Critical(err)): the error alone
critical(r, err) == finish(r, "Critical", None, err)

\* the walk returned err: Err(ScannerError::Normal { err, output })
walk_failed(r, err) == finish(r, "Normal", Some(run_output_failed(r)), err)

\* run_once_sbom up to the walk: the source URL, the fetcher, the validation
\* options and the filter are built in this order, each with `?`
run_start(importer) ==
    LET r == [NoRun EXCEPT !.importer = importer]
    IN IF ~importer.source_ok THEN critical(r, "source")
       ELSE IF ~importer.fetcher_ok THEN critical(r, "fetcher")
       ELSE IF ~importer.options_ok THEN critical(r, "options")
       ELSE IF ~importer.patterns_ok THEN critical(r, "patterns")
       ELSE [r EXCEPT !.pc = "listing"]

\* the walker's fetch of the listing of the source: a failed fetch is retried
\* while the fetcher has retries left, then the walk returns the error; a
\* listing that does not parse makes the walk return an error at once
fetch_listing(r, outcome) ==
    CASE outcome = "ok" -> [r EXCEPT !.pc = "walking"]
      [] outcome = "error" ->
             IF r.attempts < retries(r.importer)
             THEN [r EXCEPT !.attempts = @ + 1]
             ELSE walk_failed(r, "fetch")
      [] outcome = "malformed" -> walk_failed(r, "listing")

\* the walker hands out the next document every time
walk_may_visit_parallel(r) == TRUE

\* Walker::walk hands the next document to the visitor when the visitor has
\* returned from the one before
walk_may_visit(r) == r.current = 0

add(r, entry) ==
    [r EXCEPT !.report = report_add(@, entry), !.added = Append(@, entry)]

advance(r) == [r EXCEPT !.stage = @ + 1]

end_item(r) ==
    [r EXCEPT !.current = 0, !.stage = 0, !.failed = "", !.pending = None]

\* the visitor at r.stage of the chain is called for the current document;
\* d is the store
walk_stage(r, d) ==
    LET name == visitor_chain(r.importer)[r.stage]
        doc  == r.importer.documents[r.current]
        t    == [r EXCEPT !.trace = Append(@, Event(r.current, name))]
    IN CASE name = "filter" ->
                IF doc = "excluded" THEN {end_item(t)} ELSE {advance(t)}
         [] name = "retrieve" -> {advance(t)}
         [] name = "validate" ->
                {advance(IF doc = "unsigned"
                         THEN [t EXCEPT !.failed = "validation"] ELSE t)}
         [] name = "report" ->
                IF t.failed # ""
                THEN {end_item(add(t, Entry(r.current, "error", "validation")))}
                ELSE {advance(t)}
         [] name = "storage" ->
                IF doc = "malformed"
                THEN {advance([t EXCEPT !.failed = "processing"])}
                ELSE {advance([t EXCEPT !.pending = Some(o.db)])
                        : o \in ingest_sbom(d, DocKeys[r.current], <<18, 52>>,
                                            DocKeys[r.current], GraphSbomInformation)}

\* the storage visitor returns to the report visitor: the ingestion of the
\* document is committed and recorded, or its failure is recorded
walk_stored(r) ==
    LET t == [r EXCEPT !.trace = Append(@, Event(r.current, "stored"))]
    IN IF t.failed # ""
       THEN end_item(add(t, Entry(r.current, "error", "upload")))
       ELSE end_item(add(t, Entry(r.current, "success", "upload")))

\* the store after the storage visitor returned
stored_db(r, d) == IF r.pending # None THEN Unwrap(r.pending) ELSE d

RunOnceSbom ==
    /\ run.pc = "idle"
    /\ \E importer \in Importers : run' = run_start(importer)
    /\ UNCHANGED <<db, ret, returned, task, txn, once>>

WalkFetchListing ==
    /\ run.pc = "listing"
    /\ \E outcome \in {"ok", "error", "malformed"} :
           run' = fetch_listing(run, outcome)
    /\ UNCHANGED <<db, ret, returned, task, txn, once>>

WalkVisit ==
    /\ run.pc = "walking"
    /\ walk_may_visit(run)
    /\ run.next <= Len(run.importer.documents)
    /\ run' = [run EXCEPT !.current = run.next, !.next = @ + 1, !.stage = 1,
                          !.failed = "", !.pending = None]
    /\ UNCHANGED <<db, ret, returned, task, txn, once>>

WalkStage ==
    /\ run.pc = "walking"
    /\ run.current # 0
    /\ run.stage \in 1..Len(visitor_chain(run.importer))
    /\ run' \in walk_stage(run, db)
    /\ UNCHANGED <<db, ret, returned, task, txn, once>>

WalkStored ==
    /\ run.pc = "walking"
    /\ run.current # 0
    /\ run.stage = Len(visitor_chain(run.importer)) + 1
    /\ db' = stored_db(run, db)
    /\ run' = walk_stored(run)
    /\ UNCHANGED <<ret, returned, task, txn, once>>

\* the run is cancelled between two documents: the walk returns an error
WalkCancel ==
    /\ run.pc = "walking"
    /\ run.current = 0
    /\ run.next <= Len(run.importer.documents)
    /\ run' = walk_failed(run, "canceled")
    /\ UNCHANGED <<db, ret, returned, task, txn, once>>

\* the walk returned Ok
WalkFinish ==
    /\ run.pc = "walking"
    /\ run.current = 0
    /\ run.next > Len(run.importer.documents)
    /\ run' = finish(run, "Ok", Some(run_output_ok(run)), "")
    /\ UNCHANGED <<db, ret, returned, task, txn, once>>

NextImporter ==
    \/ RunOnceSbom
    \/ WalkFetchListing
    \/ WalkVisit
    \/ WalkStage
    \/ WalkStored
    \/ WalkCancel
    \/ WalkFinish

SpecImporter == Init /\ [][NextImporter]_vars

----------------------------------------------------------------------------
(* Properties of the importer run *)

\* the run returned to its caller
RunDone == run.pc = "done"

\* the positions of the messages of a report about an item
EntriesOf(report, item) == {k \in 1..Len(report) : report[k].item = item}

\* the positions of the messages of a report with an outcome
EntriesWith(report, outcome) == {k \in 1..Len(report) : report[k].outcome = outcome}

\* the terminal state of a run that returned: Ok with a report of successes
\* only, Ok with a report that has other messages, or the kind of its error
RunState(r) ==
    CASE r.result = "Ok" ->
             IF \A k \in 1..Len(Unwrap(r.output).report) :
                    Unwrap(r.output).report[k].outcome = "success"
             THEN "Completed" ELSE "CompletedWithWarnings"
      [] r.result = "Critical" -> "Critical"
      [] r.result = "Normal" -> "Normal"

\* the greatest position of a document of a kind in the listing, if any
LastOf(documents, kind) ==
    LET is == {i \in 1..Len(documents) : documents[i] = kind}
    IN IF is = {} THEN None ELSE Some(CHOOSE i \in is : \A j \in is : j <= i)

C22_WalkFailure ==
    run.result = "Normal" =>
        /\ run.output # None
        /\ Unwrap(run.output).continuation = None
        /\ Unwrap(run.output).report = run.added

\* the walk failed after a document had succeeded
C22_Witness ==
    /\ run.result = "Normal"
    /\ EntriesWith(Unwrap(run.output).report, "success") # {}
    /\ Unwrap(run.output).continuation = None

\* C23: a run whose listing could not be fetched within the retries ends in
\* the state Critical.
C23_ListingFailureCritical ==
    (RunDone /\ run.failed = "fetch") => RunState(run) = "Critical"

\* C24: every run that returned has returned a report.
C24_AlwaysReport ==
    RunDone => run.output # None

\* the visitor was called for the item before position k of the trace
CalledBefore(k, item, stage) ==
    \E j \in 1..(k - 1) : run.trace[j] = Event(item, stage)

\* C25: the retriever, the validator, the report visitor and the storage
\* visitor are called for a document only after the filter was called for
\* it, and never for a document the patterns reject.
C25_FilterBeforeIngestion ==
    \A k \in 1..Len(run.trace) :
        run.trace[k].stage # "filter"
        => /\ CalledBefore(k, run.trace[k].item, "filter")
           /\ run.importer.documents[run.trace[k].item] # "excluded"

\* a run ended that stored one document and filtered another out
C25_Witness ==
    /\ run.result = "Ok"
    /\ \E k \in 1..Len(run.trace) : run.trace[k].stage = "stored"
    /\ \E k \in 1..Len(run.trace) :
           /\ run.trace[k].stage = "filter"
           /\ run.importer.documents[run.trace[k].item] = "excluded"

\* C26: a run that returned has retried the fetch of the listing at most
\* fetch_retries times (never, when fetch_retries is unset) and is in one of
\* the states Completed, CompletedWithWarnings and Critical.
C26_RetriesBoundedTerminal ==
    RunDone =>
        /\ run.importer.fetch_retries = None => run.attempts = 0
        /\ \A n \in run.importer.fetch_retries : run.attempts <= n
        /\ RunState(run) \in {"Completed", "CompletedWithWarnings", "Critical"}

C29_ValidateBeforeFilter ==
    \A k \in 1..Len(run.trace) :
        /\ run.trace[k].stage = "filter"
           => CalledBefore(k, run.trace[k].item, "validate")
        /\ run.trace[k].stage = "storage"
           => /\ CalledBefore(k, run.trace[k].item, "validate")
              /\ CalledBefore(k, run.trace[k].item, "filter")

----------------------------------------------------------------------------
(* SbomContext::ingest_package_relates_to_package: the endpoints of edges  *)

\* the relationships the callers ingest, with the root, purls and a CPE at
\* either end
RelateEdges ==
    {Edge(RootRef, "DescribedBy", PurlRef(PurlA)),
     Edge(RootRef, "DescribedBy", CpeRef(LocateCpe)),
     Edge(PurlRef(PurlA), "DependencyOf", PurlRef(PurlB)),
     Edge(CpeRef(LocateCpe), "ContainedBy", PurlRef(PurlA)),
     Edge(PurlRef(PurlB), "DependencyOf", RootRef)}

\* the node id an end of a relationship resolves to in an SBOM
EndNodeId(sbom, reference) ==
    CASE reference.ref = "Root" -> sbom.node_id
      [] reference.ref = "Purl" -> purl_to_string(reference.purl)
      [] reference.ref = "Cpe" -> cpe_to_string(reference.cpe)

CallRelate ==
    \E sbom \in db.sbom, e \in RelateEdges :
        /\ Cardinality(db.package_relates_to_package) < MaxEdges
        /\ db' = ingest_package_relates_to_package(db, sbom, e.left,
                                                   e.relationship, e.right)
        /\ ret' = Value(<<"ingest_package_relates_to_package">>, <<sbom, e>>, TRUE)
        /\ UNCHANGED <<returned, task, txn, run, once>>

\* the same relationship is ingested again, whatever the store holds
CallRelateAgain ==
    /\ ret.key[1] = "ingest_package_relates_to_package"
    /\ db' = ingest_package_relates_to_package(db, ret.args[1], ret.args[2].left,
                 ret.args[2].relationship, ret.args[2].right)
    /\ ret' = Value(<<"ingest_package_relates_to_package", "again">>, ret.args, TRUE)
    /\ UNCHANGED <<returned, task, txn, run, once>>

NextRelate ==
    \/ CallIngestSbomDocument(Sha256Digests)
    \/ CallRelate
    \/ CallRelateAgain

SpecRelate == Init /\ [][NextRelate]_vars

\* the rows of package_relates_to_package for a relationship of an SBOM
EdgeRows(d, sbom, e) ==
    {x \in d.package_relates_to_package :
        /\ x.sbom_id = sbom.sbom_id
        /\ x.left_node_id = EndNodeId(sbom, e.left)
        /\ x.relationship = e.relationship
        /\ x.right_node_id = EndNodeId(sbom, e.right)}

\* node_id is a node of the SBOM in the tables d
IsNode(d, sbom_id, node_id) ==
    \E n \in d.sbom_node : n.sbom_id = sbom_id /\ n.node_id = node_id

\* C31: the two node ids of every edge are nodes of the SBOM that owns the
\* edge; after ingest_package_relates_to_package the store holds exactly one
\* edge row for (sbom, left, relationship, right), whose ends are the SBOM's
\* own node for Root and the node of the purl or CPE otherwise, also when
\* the call is repeated.
C31_EdgeEndpoints ==
    /\ \A x \in db.package_relates_to_package :
           /\ IsNode(db, x.sbom_id, x.left_node_id)
           /\ IsNode(db, x.sbom_id, x.right_node_id)
    /\ ret.key[1] = "ingest_package_relates_to_package"
       => /\ Cardinality(EdgeRows(db, ret.args[1], ret.args[2])) = 1
          /\ IsNode(db, ret.args[1].sbom_id, EndNodeId(ret.args[1], ret.args[2].left))
          /\ IsNode(db, ret.args[1].sbom_id, EndNodeId(ret.args[1], ret.args[2].right))

\* the relationship from a CPE to a purl was ingested twice in a row
C31_Witness ==
    /\ ret.key = <<"ingest_package_relates_to_package", "again">>
    /\ ret.args[2] = Edge(CpeRef(LocateCpe), "ContainedBy", PurlRef(PurlA))
    /\ Cardinality(EdgeRows(db, ret.args[1], ret.args[2])) = 1
    /\ db.cpe # {}

----------------------------------------------------------------------------
(* CsafLoader::load: the product status lists the loader translates        *)

\* the vulnerabilities of the loaded document that carry a CVE id
CveVulnerabilities ==
    {txn.vulnerabilities[i] :
        i \in {j \in DOMAIN txn.vulnerabilities :
                  txn.vulnerabilities[j].cve # None}}

\* the package URLs the CVE-bearing vulnerabilities list under a status
StatusPurls(status) ==
    UNION {{v[status][i] : i \in DOMAIN v[status]} : v \in CveVulnerabilities}

\* the rows of table t the committed load added
LoadedRows(t) == db[t] \ txn.pre[t]

\* C32: after a committed load, every package URL listed as fixed under a
\* vulnerability with a CVE id has a fixed assertion of the advisory and
\* every one listed as known_not_affected a not-affected assertion; every
\* assertion and every vulnerability link the load added comes from such a
\* vulnerability (those without a CVE id yield nothing), and known_affected
\* yields no assertion at all.
C32_CsafStatusTranslation ==
    txn.pc = "committed" =>
        /\ \A id \in UNION {v.cve : v \in CveVulnerabilities} :
               get_cve(db, txn.advisory, id) # None
        /\ \A l \in LoadedRows("advisory_cve") :
               /\ l.advisory_id = txn.advisory
               /\ \E v \in CveVulnerabilities : \E c \in db.cve :
                      c.id = l.cve_id /\ c.identifier \in v.cve
        /\ \A p \in StatusPurls("fixed") :
               get_fixed_package_version(db, txn.advisory, p) # None
        /\ \A p \in StatusPurls("known_not_affected") :
               get_not_affected_package_version(db, txn.advisory, p) # None
        /\ \A r \in LoadedRows("fixed_package_version") :
               \E p \in StatusPurls("fixed") :
                   r \in get_fixed_package_version(db, txn.advisory, p)
        /\ \A r \in LoadedRows("not_affected_package_version") :
               \E p \in StatusPurls("known_not_affected") :
                   r \in get_not_affected_package_version(db, txn.advisory, p)
        /\ LoadedRows("affected_package_version_range") = {}
        /\ LoadedRows("package_version_range") = {}

\* a committed load of the document whose first vulnerability has no CVE id
\* but a fixed package, and whose second one lists a known_affected package
C32_Witness ==
    /\ txn.pc = "committed"
    /\ \E i \in DOMAIN txn.vulnerabilities :
           /\ txn.vulnerabilities[i].cve = None
           /\ txn.vulnerabilities[i].fixed # <<>>
    /\ \E v \in CveVulnerabilities : v.known_affected # <<>>
    /\ LoadedRows("fixed_package_version") # {}
    /\ LoadedRows("advisory_cve") # {}

----------------------------------------------------------------------------
(* osv/loader.rs: PrefixMatcher and the static WELL_KNOWN_PREFIXES         *)

\* a string the prefixes are matched against, as the sequence of its parts
RustsecPrefix == <<"https://rustsec.org/advisories/", "RUSTSEC">>

\* PrefixMatcher::new and PrefixMatcher::add: the prefixes in insertion order
PrefixMatcher_new == <<>>
PrefixMatcher_add(matcher, prefix, name) ==
    Append(matcher, [prefix |-> prefix, name |-> name])

\* the value the initializer closure of get_well_known_prefixes returns
WellKnownPrefixes ==
    PrefixMatcher_add(PrefixMatcher_new, RustsecPrefix, "Rust Security Advisory Database")

\* OnceLock::get_or_init without the exclusion of concurrent initializers:
\* every caller that finds the cell unset runs the closure
get_or_init_unsynchronized(cell) ==
    IF cell.state = "complete" THEN "get" ELSE "init"

\* OnceLock::get_or_init, what a caller does on entry: read the value when
\* the cell is set, run the closure when no one has started to, and block
\* until the running initializer is done otherwise
get_or_init(cell) ==
    CASE cell.state = "complete"   -> "get"
      [] cell.state = "incomplete" -> "init"
      [] OTHER                     -> "wait"

MaxCalls == 2

\* a thread calls get_well_known_prefixes and enters get_or_init
CallGetWellKnownPrefixes ==
    \E p \in Threads :
        /\ once.thread[p].pc = "idle"
        /\ once.thread[p].calls < MaxCalls
        /\ LET todo == get_or_init(once)
               t    == [once.thread[p] EXCEPT !.calls = @ + 1]
           IN once' =
                CASE todo = "get" ->
                         [once EXCEPT !.thread[p] =
                             [t EXCEPT !.pc = "returned", !.seen = once.value]]
                  [] todo = "init" ->
                         [once EXCEPT !.state = "running", !.inits = @ + 1,
                                      !.thread[p] =
                             [t EXCEPT !.pc = "new", !.matcher = <<>>]]
                  [] OTHER ->
                         [once EXCEPT !.thread[p] = [t EXCEPT !.pc = "wait"]]
        /\ UNCHANGED <<db, ret, returned, task, txn, run>>

\* the closure: let mut matcher = PrefixMatcher::new()
InitNew ==
    \E p \in Threads :
        /\ once.thread[p].pc = "new"
        /\ once' = [once EXCEPT !.thread[p].pc = "add",
                                !.thread[p].matcher = PrefixMatcher_new]
        /\ UNCHANGED <<db, ret, returned, task, txn, run>>

\* the closure: matcher.add(..) on the local matcher
InitAdd ==
    \E p \in Threads :
        /\ once.thread[p].pc = "add"
        /\ once' = [once EXCEPT !.thread[p].pc = "set",
                                !.thread[p].matcher =
                                    PrefixMatcher_add(@, RustsecPrefix,
                                        "Rust Security Advisory Database")]
        /\ UNCHANGED <<db, ret, returned, task, txn, run>>

\* the closure returns matcher: get_or_init stores it in the cell and hands
\* the caller the reference to the stored value
InitSet ==
    \E p \in Threads :
        /\ once.thread[p].pc = "set"
        /\ once' = [once EXCEPT !.state = "complete",
                                !.value = once.thread[p].matcher,
                                !.thread[p].pc = "returned",
                                !.thread[p].seen = once.thread[p].matcher,
                                !.thread[p].matcher = <<>>]
        /\ UNCHANGED <<db, ret, returned, task, txn, run>>

\* a blocked caller wakes up once the cell is set
WaitDone ==
    \E p \in Threads :
        /\ once.thread[p].pc = "wait"
        /\ once.state = "complete"
        /\ once' = [once EXCEPT !.thread[p].pc = "returned",
                                !.thread[p].seen = once.value]
        /\ UNCHANGED <<db, ret, returned, task, txn, run>>

\* the caller is done with the &'static PrefixMatcher (it can only read it)
DropReference ==
    \E p \in Threads :
        /\ once.thread[p].pc = "returned"
        /\ once' = [once EXCEPT !.thread[p].pc = "idle"]
        /\ UNCHANGED <<db, ret, returned, task, txn, run>>

NextOnce ==
    \/ CallGetWellKnownPrefixes
    \/ InitNew
    \/ InitAdd
    \/ InitSet
    \/ WaitDone
    \/ DropReference

SpecOnce == Init /\ [][NextOnce]_vars

\* C33: the prefix table is built at most once, also when the first calls
\* of get_well_known_prefixes overlap; every caller that has returned holds
\* the same, fully built table; the table, once set, is never changed.
C33_PrefixTableOnce ==
    [][/\ once'.inits <= 1
       /\ \A p \in Threads :
              once'.thread[p].pc = "returned"
                  => once'.thread[p].seen = WellKnownPrefixes
       /\ once.state = "complete"
              => once'.state = "complete" /\ once'.value = once.value]_vars

\* the first calls overlapped: one thread built the table while the others
\* were blocked in get_or_init, and all have returned
C33_Witness ==
    /\ once.inits = 1
    /\ \A p \in Threads : once.thread[p].pc = "returned"
    /\ \A p \in Threads : once.thread[p].calls = 1

----------------------------------------------------------------------------
(* sbom/mod.rs: SbomContext::vulnerability_assertions called with a        *)
(* transaction that holds uncommitted relationships                        *)

TxOpen == {"open", "asserted"}

\* outside a transaction: an SBOM document, an advisory and a fixed
\* assertion are ingested and committed
TxSetupSbom == txn.pc \notin TxOpen /\ CallIngestSbomDocument({<<18, 52>>})
TxSetupAdvisory == txn.pc \notin TxOpen /\ CallIngestAdvisory
TxSetupFixed == txn.pc \notin TxOpen /\ CallAssertFixed

\* self.graph.transaction()
TxBegin ==
    /\ txn.pc \notin TxOpen
    /\ txn.loads < MaxLoads
    /\ db.sbom # {}
    /\ txn' = [NoTxn EXCEPT !.pc = "open", !.loads = txn.loads + 1, !.pre = db]
    /\ UNCHANGED <<db, ret, returned, task, run, once>>

\* ingest_package_relates_to_package(left, relationship, right, &tx): the
\* rows are written inside the transaction
TxRelate ==
    \E sbom \in db.sbom, e \in AssertionEdges :
        /\ txn.pc = "open"
        /\ LET v == View(db, txn.writes)
               o == ingest_package_relates_to_package(v, sbom, e.left,
                                                      e.relationship, e.right)
           IN /\ Cardinality(v.package_relates_to_package) < MaxEdges
              /\ db' = [db EXCEPT !.seq = o.seq]
              /\ txn' = [txn EXCEPT !.writes = Written(o, db)]
        /\ UNCHANGED <<ret, returned, task, run, once>>

\* sbom.vulnerability_assertions(&tx): describes_purls and the assertions of
\* each package read the view of tx, the closure reads the connection
TxVulnerabilityAssertions ==
    \E sbom \in db.sbom :
        /\ txn.pc = "open"
        /\ txn' = [txn EXCEPT !.pc = "asserted"]
        /\ ret' = Value(<<"vulnerability_assertions">>, <<sbom>>,
                        vulnerability_assertions(View(db, txn.writes), db, sbom))
        /\ UNCHANGED <<db, returned, task, run, once>>

\* tx.commit()
TxCommit ==
    /\ txn.pc = "asserted"
    /\ db' = View(db, txn.writes)
    /\ txn' = [txn EXCEPT !.pc = "committed", !.writes = [t \in Tables |-> {}]]
    /\ UNCHANGED <<ret, returned, task, run, once>>

NextTx ==
    \/ TxSetupSbom
    \/ TxSetupAdvisory
    \/ TxSetupFixed
    \/ TxBegin
    \/ TxRelate
    \/ TxVulnerabilityAssertions
    \/ TxCommit

SpecTx == Init /\ [][NextTx]_vars

\* C34: vulnerability_assertions(tx) evaluates its steps against one view:
\* its result is what the three steps yield on the view of tx (every edge
\* the described-packages step sees, the closure step sees), and it equals
\* the result of the same call once the transaction has committed.
C34_OneTransactionalView ==
    [][/\ (txn.pc = "open" /\ txn'.pc = "asserted")
          => ret'.value = vulnerability_assertions(View(db, txn.writes),
                                                   View(db, txn.writes),
                                                   ret'.args[1])
       /\ (txn.pc = "asserted" /\ txn'.pc = "committed")
          => ret.value = vulnerability_assertions(db', db', ret.args[1])]_vars

----------------------------------------------------------------------------
(* OsvLoader::load: severities that do not parse                           *)

\* the CVSSv3 severities of a record whose score parses / does not parse
Cvss3Severities(osv, parses) ==
    {i \in 1..Len(osv.severity) :
        /\ osv.severity[i].severity_type = "CVSSv3"
        /\ cvss3_parses(osv.severity[i].score) = parses}

\* the load that has just returned Ok read a CVSSv3 score that does not parse
LoadedUnparseable ==
    /\ ret.key[1] = "osv_load" /\ ret.status = "ok"
    /\ Cvss3Severities(ret.args[1], FALSE) # {}

\* C35 as stated: a load that succeeds has added one warning for each
\* CVSSv3 severity string of the record that does not parse.
C35_OneWarningPerString ==
    LoadedUnparseable =>
        Len(ret.value.warnings) = Cardinality(Cvss3Severities(ret.args[1], FALSE))

\* C35, amended: a CVSSv3 severity string that does not parse is not fatal:
\* a load that succeeds has added one warning for it per CVE alias of the
\* record (none when the record has no CVE alias) and no score row for it,
\* has stored the scores of the severities that parse, those after it
\* included, once per CVE alias, has recorded the statuses of the affected
\* packages, and its rows are committed with the advisory row.
C35_WarningPerCveAlias ==
    [][(ret'.key[1] = "osv_load" /\ ret'.status = "ok") =>
         LET osv    == ret'.args[1]
             links  == Len(cve_ids(osv))
             scores == db'.cvss3 \ db.cvss3
             want   == {<<occ, st>> \in RangeOccurrences(osv)
                            \X (UNION {RangeStatuses(e) : e \in OsvEventLists}) :
                           st \in RangeStatuses(OccurrenceEvents(osv, occ))}
         IN /\ Len(ret'.value.warnings)
                 = links * Cardinality(Cvss3Severities(osv, FALSE))
            /\ \A i \in 1..Len(ret'.value.warnings) :
                   ret'.value.warnings[i] = "Unable to parse CVSS3"
            /\ \A r \in scores : cvss3_parses(r.score) /\ r.advisory_id = ret'.id
            /\ Cardinality(scores)
                 = links * Cardinality(Cvss3Severities(osv, TRUE))
            /\ Cardinality(db'.package_status \ db.package_status)
                 = Cardinality(want)
            /\ \E a \in db'.advisory : a.id = ret'.id
      ]_vars

\* a record with one CVE alias whose first CVSSv3 score does not parse and
\* whose second does was loaded: one warning, one score, three statuses
C35_Witness ==
    /\ LoadedUnparseable
    /\ Len(cve_ids(ret.args[1])) = 1
    /\ ret.value.warnings = <<"Unable to parse CVSS3">>
    /\ {r.score : r \in db.cvss3} = {Cvss3Valid}
    /\ Cardinality(db.package_status) = 3

----------------------------------------------------------------------------
(* OsvLoader::load: the aliases that become vulnerability links            *)

\* the aliases of a record that name a CVE
CveAliases(osv) ==
    {osv.aliases[i] : i \in {j \in 1..Len(osv.aliases) :
                                osv.aliases[j] \in {"CVE-123", "CVE-456"}}}

\* the link rows of advisory adv to the vulnerability named identifier
LinksOf(d, adv, identifier) ==
    {l \in d.advisory_cve :
        /\ l.advisory_id = adv
        /\ \E c \in d.cve : c.id = l.cve_id /\ c.identifier = identifier}

\* C36: a load that succeeds leaves the advisory with exactly one link per
\* alias that starts with "CVE-", adds no link for any other alias, and
\* records package statuses only for the advisory and the linked
\* vulnerabilities; a record without a CVE alias yields the advisory row, no
\* link and no status, whatever its affected list holds.
C36_LinksOnlyCveAliases ==
    [][(ret'.key[1] = "osv_load" /\ ret'.status = "ok") =>
         LET osv      == ret'.args[1]
             links    == db'.advisory_cve \ db.advisory_cve
             statuses == db'.package_status \ db.package_status
         IN /\ \E a \in db'.advisory : a.id = ret'.id
            /\ \A alias \in CveAliases(osv) :
                   Cardinality(LinksOf(db', ret'.id, alias)) = 1
            /\ \A l \in links :
                   \E alias \in CveAliases(osv) : l \in LinksOf(db', ret'.id, alias)
            /\ \A r \in statuses :
                   /\ r.advisory_id = ret'.id
                   /\ r.vulnerability \in CveAliases(osv)
                   /\ LinksOf(db', ret'.id, r.vulnerability) # {}
            /\ CveAliases(osv) = {} => links = {} /\ statuses = {}
      ]_vars

\* a record whose only alias is a GHSA id and whose affected list names a
\* package with a range was loaded: the advisory row, no link, no status
C36_Witness ==
    /\ ret.key[1] = "osv_load" /\ ret.status = "ok"
    /\ ret.args[1].aliases = <<"GHSA-5h46-h7hh-c6x9">>
    /\ \E i \in 1..Len(ret.args[1].affected) :
           /\ ret.args[1].affected[i].package # None
           /\ ret.args[1].affected[i].ranges
                  = <<<<Introduced(OsvVersionA), Fixed(OsvVersionB)>>>>
    /\ \E a \in db.advisory : a.id = ret.id
    /\ db.advisory_cve = {}
    /\ db.package_status = {}

----------------------------------------------------------------------------
(* osv/loader.rs: events_to_range on event lists of any order              *)

MaxEvents == 3

\* every list of up to MaxEvents events over two versions
OsvEvents == {Introduced(OsvVersionA), Introduced(OsvVersionB),
              Fixed(OsvVersionA), Fixed(OsvVersionB),
              LastAffected(OsvVersionA)}
RECURSIVE EventSeqsUpTo(_)
EventSeqsUpTo(n) ==
    IF n = 0 THEN {<<>>}
    ELSE LET shorter == EventSeqsUpTo(n - 1)
         IN shorter \cup {Append(s, e) : s \in shorter, e \in OsvEvents}
EventSeqs == EventSeqsUpTo(MaxEvents)

CallEventsToRange ==
    /\ \E events \in EventSeqs :
           ret' = Value(<<"events_to_range">>, <<events>>,
                        events_to_range(events))
    /\ UNCHANGED <<db, returned, task, txn, run, once>>

\* the body of the range loop of load for one CVE, one purl and one range
CallRangeWork ==
    /\ \E events \in EventSeqs, purl \in OsvPurls :
           ret' = Value(<<"range_work">>, <<events, purl>>,
                        range_work("CVE-123", purl, events))
    /\ UNCHANGED <<db, returned, task, txn, run, once>>

NextRange ==
    \/ CallEventsToRange
    \/ CallRangeWork

SpecRange == Init /\ [][NextRange]_vars

\* the version of the event at the least position of the kind, if any
FirstVersion(events, kind) ==
    IF EventsOf(events, kind) = {} THEN None
    ELSE Some(FirstOf(events, kind))

StatusesOf(work, status) == {i \in 1..Len(work) : work[i].status = status}

\* C37: events_to_range returns the version of the first Introduced event
\* and that of the first Fixed event of the list (None when there is none),
\* whatever the order of the two kinds and whatever events follow; one range
\* yields for a purl at most one affected range and at most one fixed
\* assertion, bounded by those two versions.
C37_FirstIntroducedFirstFixed ==
    /\ ret.key[1] = "events_to_range" =>
           /\ ret.value.start = FirstVersion(ret.args[1], "Introduced")
           /\ ret.value.end = FirstVersion(ret.args[1], "Fixed")
    /\ ret.key[1] = "range_work" =>
           LET events == ret.args[1]
               work   == ret.value
               start  == FirstVersion(events, "Introduced")
               end    == FirstVersion(events, "Fixed")
           IN /\ \A i \in 1..Len(work) :
                     /\ work[i].op = "ingest_package_status"
                     /\ work[i].purl = ret.args[2]
                     /\ work[i].status \in {"affected", "fixed"}
              /\ Cardinality(StatusesOf(work, "affected"))
                     = IF start = None /\ end = None THEN 0 ELSE 1
              /\ Cardinality(StatusesOf(work, "fixed"))
                     = IF end = None THEN 0 ELSE 1
              /\ \A i \in StatusesOf(work, "fixed") :
                     work[i].info.spec = Exact(Unwrap(end))
              /\ \A i \in StatusesOf(work, "affected") :
                     /\ work[i].info.spec.lower
                            = IF start = None THEN Unbounded
                              ELSE Inclusive(Unwrap(start))
                     /\ work[i].info.spec.upper
                            = IF end = None THEN Unbounded
                              ELSE Exclusive(Unwrap(end))

\* a range that lists a Fixed event before the Introduced event and a second
\* Fixed event after it: one affected range [1.0.2, 1.2.0) and one fixed
\* assertion at 1.2.0
C37_Witness ==
    /\ ret.key[1] = "range_work"
    /\ ret.args[1] = <<Fixed(OsvVersionB), Introduced(OsvVersionA),
                       Fixed(OsvVersionA)>>
    /\ Len(ret.value) = 2
    /\ ret.value[1].info.spec
           = Range(Inclusive(OsvVersionA), Exclusive(OsvVersionB))
    /\ ret.value[2].info.spec = Exact(OsvVersionB)

----------------------------------------------------------------------------
(* osv/loader.rs: the issuer of an OSV advisory (detect_organization)      *)

\* str::starts_with on strings given as sequences of parts
starts_with(input, prefix) ==
    /\ Len(prefix) <= Len(input)
    /\ SubSeq(input, 1, Len(prefix)) = prefix

\* PrefixMatcher::detect: the name of the first prefix, in insertion order,
\* that input starts with
RECURSIVE detect(_, _)
detect(matcher, input) ==
    IF matcher = <<>> THEN None
    ELSE IF starts_with(input, Head(matcher).prefix) THEN Some(Head(matcher).name)
    ELSE detect(Tail(matcher), input)

\* references.iter().find(|r| r.reference_type is Advisory)
RECURSIVE find_advisory(_)
find_advisory(references) ==
    IF references = <<>> THEN None
    ELSE IF Head(references).reference_type = "Advisory" THEN Some(Head(references))
    ELSE find_advisory(Tail(references))

\* detect_organization that goes on to later Advisory references when the
\* first one matches no prefix
RECURSIVE detect_organization_any_advisory(_)
detect_organization_any_advisory(references) ==
    IF references = None THEN None
    ELSE LET refs == Unwrap(references)
         IN IF refs = <<>> THEN None
            ELSE IF /\ Head(refs).reference_type = "Advisory"
                    /\ detect(WellKnownPrefixes, Head(refs).url) # None
                 THEN detect(WellKnownPrefixes, Head(refs).url)
            ELSE detect_organization_any_advisory(Some(Tail(refs)))

\* detect_organization(osv), references = osv.references (an Option); the
\* table is the one get_well_known_prefixes returns
detect_organization(references) ==
    IF references = None THEN None
    ELSE LET advisory_location == find_advisory(Unwrap(references))
         IN IF advisory_location = None THEN None
            ELSE detect(WellKnownPrefixes, Unwrap(advisory_location).url)

\* load: let issuer = issuer.or(detect_organization(&osv))
load_issuer(issuer, references) ==
    IF issuer # None THEN issuer ELSE detect_organization(references)

MaxReferences == 2

RustsecUrl == <<"https://rustsec.org/advisories/", "RUSTSEC", "-2021-0079.html">>
ReferenceUrls == {RustsecUrl,
                  <<"https://rustsec.org/advisories/">>,
                  <<"https://github.com/", "hyperium/hyper">>}
OsvReferences == [reference_type : {"Advisory", "Web"}, url : ReferenceUrls]

RECURSIVE ReferenceSeqsUpTo(_)
ReferenceSeqsUpTo(n) ==
    IF n = 0 THEN {<<>>}
    ELSE LET shorter == ReferenceSeqsUpTo(n - 1)
         IN shorter \cup {Append(s, r) : s \in shorter, r \in OsvReferences}
ReferenceOptions == Option(ReferenceSeqsUpTo(MaxReferences))

\* the issuers a caller of load names
Issuers == {"Red Hat", "GitHub"}

\* matchers whose prefixes overlap, in both insertion orders
Matchers ==
    {WellKnownPrefixes,
     PrefixMatcher_add(WellKnownPrefixes,
                       <<"https://rustsec.org/advisories/">>, "RustSec"),
     PrefixMatcher_add(PrefixMatcher_add(PrefixMatcher_new,
                           <<"https://rustsec.org/advisories/">>, "RustSec"),
                       RustsecPrefix, "Rust Security Advisory Database")}

CallDetect ==
    /\ \E matcher \in Matchers, input \in ReferenceUrls :
           ret' = Value(<<"detect">>, <<matcher, input>>, detect(matcher, input))
    /\ UNCHANGED <<db, returned, task, txn, run, once>>

CallLoadIssuer ==
    /\ \E issuer \in Option(Issuers), references \in ReferenceOptions :
           ret' = Value(<<"load_issuer">>, <<issuer, references>>,
                        load_issuer(issuer, references))
    /\ UNCHANGED <<db, returned, task, txn, run, once>>

NextIssuer ==
    \/ CallDetect
    \/ CallLoadIssuer

SpecIssuer == Init /\ [][NextIssuer]_vars

\* the positions of the Advisory references of a reference list
AdvisoryPositions(refs) ==
    {i \in 1..Len(refs) : refs[i].reference_type = "Advisory"}

\* the positions of the prefixes of a matcher that input starts with
MatchingPositions(matcher, input) ==
    {i \in 1..Len(matcher) :
        /\ Len(matcher[i].prefix) <= Len(input)
        /\ \A k \in 1..Len(matcher[i].prefix) : input[k] = matcher[i].prefix[k]}

Least(S) == CHOOSE i \in S : \A j \in S : i <= j

\* C38: the issuer is the explicit issuer when one is given; otherwise the
\* name of the first prefix, in insertion order, that the URL of the first
\* reference of type Advisory starts with; it is absent when the record has
\* no references, when none is of type Advisory, and when the first Advisory
\* reference matches no prefix, even if a later one would match.
C38_IssuerFromFirstAdvisory ==
    /\ ret.key[1] = "detect" =>
           LET hits == MatchingPositions(ret.args[1], ret.args[2])
           IN ret.value = IF hits = {} THEN None
                          ELSE Some(ret.args[1][Least(hits)].name)
    /\ ret.key[1] = "load_issuer" =>
           LET issuer == ret.args[1]
               refs   == IF ret.args[2] = None THEN <<>> ELSE Unwrap(ret.args[2])
               advs   == AdvisoryPositions(refs)
           IN ret.value
                = IF issuer # None THEN issuer
                  ELSE IF advs = {} THEN None
                  ELSE IF MatchingPositions(WellKnownPrefixes,
                                            refs[Least(advs)].url) = {}
                       THEN None
                  ELSE Some("Rust Security Advisory Database")

\* no explicit issuer; the first Advisory reference matches no prefix and the
\* second one is the RustSec advisory: no issuer
C38_Witness ==
    /\ ret.key[1] = "load_issuer"
    /\ ret.args[1] = None
    /\ ret.args[2] # None
    /\ Len(Unwrap(ret.args[2])) = 2
    /\ Unwrap(ret.args[2])[1]
           = [reference_type |-> "Advisory",
              url |-> <<"https://github.com/", "hyperium/hyper">>]
    /\ Unwrap(ret.args[2])[2]
           = [reference_type |-> "Advisory", url |-> RustsecUrl]
    /\ ret.value = None

----------------------------------------------------------------------------
(* AdvisoryContext::ingest_cve: one vulnerability for many advisories      *)

\* C39: a vulnerability is identified by its identifier alone: the cve
\* table holds one row per identifier, two advisories that ingested the same
\* identifier got the same CVE row, and each of them has a link row of its
\* own to it.
C39_OneCvePerIdentifier ==
    /\ \A c1, c2 \in db.cve : c1.identifier = c2.identifier => c1 = c2
    /\ \A a, b \in OpReturned("ingest_cve") :
           (a.key[2] # b.key[2] /\ a.key[3] = b.key[3]) =>
               /\ a.id = b.id
               /\ Cardinality(CveLinks(a.key[2], a.key[3])) = 1
               /\ Cardinality(CveLinks(b.key[2], b.key[3])) = 1
               /\ CveLinks(a.key[2], a.key[3]) \cap CveLinks(b.key[2], b.key[3]) = {}
               /\ \A l \in CveLinks(a.key[2], a.key[3]) \cup CveLinks(b.key[2], b.key[3]) :
                      l.cve_id = a.id

\* the last call linked an identifier that another advisory had ingested
\* before: no CVE row was added, the link row was
C39_Witness ==
    /\ ret.key[1] = "ingest_cve" /\ ret.status = "ok" /\ ret.created
    /\ \E b \in OpReturned("ingest_cve") :
           b.key[2] # ret.key[2] /\ b.key[3] = ret.key[3] /\ b.id = ret.id
    /\ Cardinality({c \in db.cve : c.identifier = ret.key[3]}) = 1
    /\ Cardinality({l \in db.advisory_cve : l.cve_id = ret.id}) = 2

----------------------------------------------------------------------------
(* AdvisoryContext: the lookups get_fixed_package_version,                 *)
(* get_not_affected_package_version and get_affected_package_range next to *)
(* the ingest operations                                                   *)

\* a lookup that creates the package version it does not find
system_get_package_version_creating(d, purl) ==
    {Out(o.db, {o.res}) : o \in ingest_package_version(d, purl)}

\* self.system.get_package_version(purl, tx): the Option and the store
system_get_package_version(d, purl) ==
    {Out(d, get_package_version(d, purl))}

\* self.system.get_package_version_range(purl, start, end, tx)
system_get_package_version_range(d, pkg, start, end) ==
    {Out(d, get_package_version_range(d, pkg, start, end))}

CallGetFixed ==
    \E a \in db.advisory, purl \in Purls :
        /\ \E o \in system_get_package_version(db, purl) :
               /\ db' = o.db
               /\ ret' = Value(<<"get_fixed_package_version", a.id, purl.pkg, purl.ver>>,
                               <<>>,
                               IF o.res = None THEN None
                               ELSE get_fixed_package_version(o.db, a.id, purl))
        /\ UNCHANGED <<returned, task, txn, run, once>>

CallGetNotAffected ==
    \E a \in db.advisory, purl \in Purls :
        /\ \E o \in system_get_package_version(db, purl) :
               /\ db' = o.db
               /\ ret' = Value(<<"get_not_affected_package_version", a.id,
                                 purl.pkg, purl.ver>>,
                               <<>>,
                               IF o.res = None THEN None
                               ELSE get_not_affected_package_version(o.db, a.id, purl))
        /\ UNCHANGED <<returned, task, txn, run, once>>

CallGetAffectedRange ==
    \E a \in db.advisory, pkg \in PackageNames,
       start \in RangeStarts, end \in RangeEnds :
        /\ \E o \in system_get_package_version_range(db, pkg, start, end) :
               /\ db' = o.db
               /\ ret' = Value(<<"get_affected_package_range", a.id, pkg, start, end>>,
                               <<>>,
                               IF o.res = None THEN None
                               ELSE get_affected_package_range(o.db, a.id, pkg,
                                                               start, end))
        /\ UNCHANGED <<returned, task, txn, run, once>>

NextLookup ==
    \/ CallIngestAdvisory
    \/ CallIngestFixed
    \/ CallIngestNotAffected
    \/ CallIngestAffectedRange
    \/ CallGetFixed
    \/ CallGetNotAffected
    \/ CallGetAffectedRange

SpecLookup == Init /\ [][NextLookup]_vars

\* the package version or range a status call names, as the store d knows it
KnownPackage(d, key) ==
    IF key[1] \in {"get_affected_package_range", "ingest_affected_package_range"}
    THEN {r \in d.package_version_range :
             r.pkg = key[3] /\ r.start = key[4] /\ r.end = key[5]}
    ELSE {r \in d.package_version : r.pkg = key[3] /\ r.version = key[4]}

\* the assertion rows of the advisory a status call names, on that package
KnownAssertion(d, key) ==
    LET ids == {r.id : r \in KnownPackage(d, key)}
    IN CASE key[1] \in {"get_fixed_package_version", "ingest_fixed_package_version"} ->
                {r \in d.fixed_package_version :
                    r.advisory_id = key[2] /\ r.package_version_id \in ids}
         [] key[1] \in {"get_not_affected_package_version",
                        "ingest_not_affected_package_version"} ->
                {r \in d.not_affected_package_version :
                    r.advisory_id = key[2] /\ r.package_version_id \in ids}
         [] OTHER ->
                {r \in d.affected_package_version_range :
                    r.advisory_id = key[2] /\ r.package_version_range_id \in ids}

GetOps == {"get_fixed_package_version", "get_not_affected_package_version",
           "get_affected_package_range"}
IngestOps == {"ingest_fixed_package_version", "ingest_not_affected_package_version",
              "ingest_affected_package_range"}

\* C40: a lookup writes nothing and returns None when the package version
\* or range is unknown, the assertion of this advisory otherwise; an ingest
\* that finds the assertion writes nothing; an ingest that does not adds one
\* assertion row, and a package version or range row exactly when that was
\* unknown.
C40_LookupWritesNothing ==
    [][/\ ret'.key[1] \in GetOps =>
              /\ db' = db
              /\ KnownPackage(db, ret'.key) = {} => ret'.value = None
              /\ ret'.value = KnownAssertion(db, ret'.key)
       /\ (ret'.key[1] \in IngestOps /\ ret'.status = "ok") =>
              /\ KnownAssertion(db, ret'.key) # {} => db' = db
              /\ KnownAssertion(db, ret'.key) = {} =>
                     /\ Cardinality(KnownAssertion(db', ret'.key)) = 1
                     /\ Size(db') = Size(db)
                            + (IF KnownPackage(db, ret'.key) = {} THEN 2 ELSE 1)
              /\ KnownPackage(db', ret'.key) \ KnownPackage(db, ret'.key) # {}
                     => KnownAssertion(db, ret'.key) = {}
      ]_vars

\* a lookup of a fixed assertion on a package version nobody has named yet
\* returned None and left every table empty of package versions
C40_Witness ==
    /\ ret.key[1] = "get_fixed_package_version"
    /\ ret.value = None
    /\ db.package_version = {}
    /\ db.advisory # {}

====
